---------------------------- MODULE Spec2Model ----------------------------
(***************************************************************************)
(* State-machine model of the YieldFarmingStrategy contract                *)
(* (src/unnamed/part_005): pool registry, accrual engine, position ledger  *)
(* and admin layer.  Every external call of the contract is one atomic     *)
(* action; a reverted call leaves the contract state as it was and only    *)
(* records the revert reason in the history variable lastOp.               *)
(*                                                                         *)
(* Magnitudes: TLC integers are 32 bit, so the fixed-point scale (1e12 in  *)
(* the source) and the default emission rate (1e18 in the source) are      *)
(* modelled by small numbers; every formula of the source is kept, with    *)
(* its truncating divisions in the same places.  uint256 overflow cannot   *)
(* occur within the bounds of the model and is not modelled.  The tokens   *)
(* are plain ERC20 tokens: a transfer moves exactly the amount asked for   *)
(* or fails, and never calls back into the contract.                       *)
(*                                                                         *)
(* The repository also holds a Node script, BuilderScoreTracker            *)
(* (src/unnamed/part_003); it is modelled as a separate process in the     *)
(* variable tracker, with its own specification SpecTracker.               *)
(***************************************************************************)
EXTENDS Integers, Sequences, FiniteSets, TLC

(* ------------------------------ bounds -------------------------------- *)
MaxPools == 2
MaxBlock == 3
MaxStake == 20
MaxCustody == 6
MaxTx == 4
LedgerMaxTx == 6

(* ------------------------- program constants -------------------------- *)
PRECISION == 100
InitialRewardPerBlock == 7
InitialEmergencyWithdrawFee == 500
MAX_FEE == 1000
BPS_DENOMINATOR == 10000

(* ------------------------------ inputs -------------------------------- *)
Owner == "owner"
Users == {"alice", "bob"}
Accounts == {Owner} \cup Users
ZeroAddress == "0x0"
STK == "STK"
RWD == "RWD"
Tokens == {STK, RWD}
PoolIds == 0 .. (MaxPools - 1)
DepositAmounts == {0, 10, 20}
WithdrawAmounts == {0, 10, 20}
RewardRates == {2}
FeeValues == {MAX_FEE, MAX_FEE + 1}
FundAmounts == {6}
PoolConfigs ==
    { [stakingToken |-> STK, rewardToken |-> RWD, allocPoint |-> 1, minLockPeriod |-> 0],
      [stakingToken |-> STK, rewardToken |-> STK, allocPoint |-> 2, minLockPeriod |-> 1],
      [stakingToken |-> STK, rewardToken |-> RWD, allocPoint |-> 0, minLockPeriod |-> 0],
      [stakingToken |-> ZeroAddress, rewardToken |-> RWD, allocPoint |-> 1, minLockPeriod |-> 0],
      [stakingToken |-> STK, rewardToken |-> ZeroAddress, allocPoint |-> 1, minLockPeriod |-> 0],
      [stakingToken |-> STK, rewardToken |-> RWD, allocPoint |-> 1, minLockPeriod |-> 2] }

(* --------------------------- revert reasons --------------------------- *)
OK == "ok"
InvalidPool == "Invalid pool ID"
InvalidAmount == "Amount must be greater than 0"
InsufficientPosition == "Insufficient balance"
PositionLocked == "Position still locked"
NoPosition == "No position to withdraw"
EmergencyDisabled == "Emergency withdraw not enabled"
NotAuthorized == "Not authorized"
NoActivePosition == "Position not active"
Unauthorized == "Ownable: caller is not the owner"
SystemPaused == "Pausable: paused"
NotPaused == "Pausable: not paused"
InvalidStakingToken == "Invalid staking token"
InvalidRewardToken == "Invalid reward token"
FeeTooHigh == "Fee too high"
PanicIndex == "Panic(0x32)"
PanicDivZero == "Panic(0x12)"
PanicArith == "Panic(0x11)"
TransferFailed == "SafeERC20: transfer failed"

VARIABLES poolInfo, userPositions, authorizedRebalancers, rewardPerBlock,
          totalAllocPoint, emergencyWithdrawFee, paused, custody,
          blockNumber, timestamp, txLeft, lastOp, credited, settled, events,
          tracker

vars == <<poolInfo, userPositions, authorizedRebalancers, rewardPerBlock,
          totalAllocPoint, emergencyWithdrawFee, paused, custody,
          blockNumber, timestamp, txLeft, lastOp, credited, settled, events,
          tracker>>

(* The variables of the contract and of its observers, apart from the      *)
(* builder-score tracker script.                                            *)
contractVars == <<poolInfo, userPositions, authorizedRebalancers, rewardPerBlock,
                  totalAllocPoint, emergencyWithdrawFee, paused, custody,
                  blockNumber, timestamp, txLeft, lastOp, credited, settled, events>>

(* The contract storage together with the block environment, as one value. *)
st == [poolInfo |-> poolInfo, userPositions |-> userPositions,
       authorizedRebalancers |-> authorizedRebalancers,
       rewardPerBlock |-> rewardPerBlock, totalAllocPoint |-> totalAllocPoint,
       emergencyWithdrawFee |-> emergencyWithdrawFee, paused |-> paused,
       custody |-> custody, blockNumber |-> blockNumber, timestamp |-> timestamp]

Position == [amount |-> 0, lastRewardBlock |-> 0, rewardDebt |-> 0,
             lockEndTime |-> 0, isActive |-> FALSE]

NoCredit == [p \in PoolIds |-> 0]

(* Result of a call: revert reason (or OK), the state after it, the pending *)
(* reward it computed, the reward and staking tokens it sent to the caller, *)
(* and the pool reward each pool was credited by its accruals.              *)
Result(err, s, pending, rewardOut, tokenOut, credit) ==
    [err |-> err, st |-> s, pending |-> pending, rewardOut |-> rewardOut,
     tokenOut |-> tokenOut, credit |-> credit]

Revert(s, err) == Result(err, s, 0, 0, 0, NoCredit)

(* ------------------------------ accrual ------------------------------- *)
updatePoolSkipsEmpty(s, pid) ==
    IF pid >= Len(s.poolInfo) THEN Revert(s, PanicIndex)
    ELSE LET pool == s.poolInfo[pid + 1] IN
      IF s.blockNumber <= pool.lastRewardBlock THEN Revert(s, OK)
      ELSE IF pool.totalStaked = 0
        THEN Result(OK, s, 0, 0, 0, NoCredit)
      ELSE IF s.totalAllocPoint = 0 THEN Revert(s, PanicDivZero)
      ELSE LET multiplier == s.blockNumber - pool.lastRewardBlock
               reward == (multiplier * s.rewardPerBlock * pool.allocPoint) \div s.totalAllocPoint
           IN Result(OK,
                     [s EXCEPT !.poolInfo[pid + 1].accRewardPerShare =
                                   @ + ((reward * PRECISION) \div pool.totalStaked),
                               !.poolInfo[pid + 1].lastRewardBlock = s.blockNumber],
                     0, 0, 0, [NoCredit EXCEPT ![pid] = reward])

updatePoolKeepsHeight(s, pid) ==
    IF pid >= Len(s.poolInfo) THEN Revert(s, PanicIndex)
    ELSE LET pool == s.poolInfo[pid + 1] IN
      IF s.blockNumber <= pool.lastRewardBlock THEN Revert(s, OK)
      ELSE IF pool.totalStaked = 0
        THEN Result(OK, [s EXCEPT !.poolInfo[pid + 1].lastRewardBlock = s.blockNumber],
                    0, 0, 0, NoCredit)
      ELSE IF s.totalAllocPoint = 0 THEN Revert(s, PanicDivZero)
      ELSE LET multiplier == s.blockNumber - pool.lastRewardBlock
               reward == (multiplier * s.rewardPerBlock * pool.allocPoint) \div s.totalAllocPoint
           IN Result(OK,
                     [s EXCEPT !.poolInfo[pid + 1].accRewardPerShare =
                                   @ + ((reward * PRECISION) \div pool.totalStaked),
                               !.poolInfo[pid + 1].lastRewardBlock = @],
                     0, 0, 0, [NoCredit EXCEPT ![pid] = reward])

updatePoolScaleFirst(s, pid) ==
    IF pid >= Len(s.poolInfo) THEN Revert(s, PanicIndex)
    ELSE LET pool == s.poolInfo[pid + 1] IN
      IF s.blockNumber <= pool.lastRewardBlock THEN Revert(s, OK)
      ELSE IF pool.totalStaked = 0
        THEN Result(OK, [s EXCEPT !.poolInfo[pid + 1].lastRewardBlock = s.blockNumber],
                    0, 0, 0, NoCredit)
      ELSE IF s.totalAllocPoint = 0 THEN Revert(s, PanicDivZero)
      ELSE LET multiplier == s.blockNumber - pool.lastRewardBlock
               reward == (multiplier * s.rewardPerBlock * pool.allocPoint) \div s.totalAllocPoint
           IN Result(OK,
                     [s EXCEPT !.poolInfo[pid + 1].accRewardPerShare =
                                   @ + (((multiplier * s.rewardPerBlock * pool.allocPoint
                                            * PRECISION) \div s.totalAllocPoint)
                                           \div pool.totalStaked),
                               !.poolInfo[pid + 1].lastRewardBlock = s.blockNumber],
                     0, 0, 0, [NoCredit EXCEPT ![pid] = reward])

updatePoolOverwrite(s, pid) ==
    IF pid >= Len(s.poolInfo) THEN Revert(s, PanicIndex)
    ELSE LET pool == s.poolInfo[pid + 1] IN
      IF s.blockNumber <= pool.lastRewardBlock THEN Revert(s, OK)
      ELSE IF pool.totalStaked = 0
        THEN Result(OK, [s EXCEPT !.poolInfo[pid + 1].lastRewardBlock = s.blockNumber],
                    0, 0, 0, NoCredit)
      ELSE IF s.totalAllocPoint = 0 THEN Revert(s, PanicDivZero)
      ELSE LET multiplier == s.blockNumber - pool.lastRewardBlock
               reward == (multiplier * s.rewardPerBlock * pool.allocPoint) \div s.totalAllocPoint
           IN Result(OK,
                     [s EXCEPT !.poolInfo[pid + 1].accRewardPerShare =
                                   (reward * PRECISION) \div pool.totalStaked,
                               !.poolInfo[pid + 1].lastRewardBlock = s.blockNumber],
                     0, 0, 0, [NoCredit EXCEPT ![pid] = reward])

updatePool(s, pid) ==
    IF pid >= Len(s.poolInfo) THEN Revert(s, PanicIndex)
    ELSE LET pool == s.poolInfo[pid + 1] IN
      IF s.blockNumber <= pool.lastRewardBlock THEN Revert(s, OK)
      ELSE IF pool.totalStaked = 0
        THEN Result(OK, [s EXCEPT !.poolInfo[pid + 1].lastRewardBlock = s.blockNumber],
                    0, 0, 0, NoCredit)
      ELSE IF s.totalAllocPoint = 0 THEN Revert(s, PanicDivZero)
      ELSE LET multiplier == s.blockNumber - pool.lastRewardBlock
               reward == (multiplier * s.rewardPerBlock * pool.allocPoint) \div s.totalAllocPoint
           IN Result(OK,
                     [s EXCEPT !.poolInfo[pid + 1].accRewardPerShare =
                                   @ + ((reward * PRECISION) \div pool.totalStaked),
                               !.poolInfo[pid + 1].lastRewardBlock = s.blockNumber],
                     0, 0, 0, [NoCredit EXCEPT ![pid] = reward])

RECURSIVE massUpdateFrom(_, _, _)
massUpdateFrom(s, pid, credit) ==
    IF pid >= Len(s.poolInfo) THEN Result(OK, s, 0, 0, 0, credit)
    ELSE LET u == updatePool(s, pid) IN
      IF u.err /= OK THEN u
      ELSE massUpdateFrom(u.st, pid + 1, [p \in PoolIds |-> credit[p] + u.credit[p]])

massUpdatePools(s) ==
    LET m == massUpdateFrom(s, 0, NoCredit)
    IN IF m.err /= OK THEN Revert(s, m.err) ELSE m

(* safeRewardTransfer: the amount actually sent, capped by the custody.    *)
safeRewardTransfer(s, rewardToken, amount) ==
    LET balance == s.custody[rewardToken] IN
    IF amount > balance THEN balance ELSE amount

pendingRewardStoredOnly(s, pid, user) ==
    IF pid >= Len(s.poolInfo) THEN Revert(s, PanicIndex)
    ELSE LET pool == s.poolInfo[pid + 1]
             position == s.userPositions[pid][user]
             accrues == s.blockNumber > pool.lastRewardBlock /\ pool.totalStaked /= 0
         IN IF accrues /\ s.totalAllocPoint = 0 THEN Revert(s, PanicDivZero)
            ELSE LET multiplier == s.blockNumber - pool.lastRewardBlock
                     reward == (multiplier * s.rewardPerBlock * pool.allocPoint)
                                  \div s.totalAllocPoint
                     accRewardPerShare ==
                         IF accrues /\ FALSE
                         THEN pool.accRewardPerShare + ((reward * PRECISION) \div pool.totalStaked)
                         ELSE pool.accRewardPerShare
                     value == ((position.amount * accRewardPerShare) \div PRECISION)
                                 - position.rewardDebt
                 IN IF value < 0 THEN Revert(s, PanicArith)
                    ELSE Result(OK, s, value, 0, 0, NoCredit)

pendingReward(s, pid, user) ==
    IF pid >= Len(s.poolInfo) THEN Revert(s, PanicIndex)
    ELSE LET pool == s.poolInfo[pid + 1]
             position == s.userPositions[pid][user]
             accrues == s.blockNumber > pool.lastRewardBlock /\ pool.totalStaked /= 0
         IN IF accrues /\ s.totalAllocPoint = 0 THEN Revert(s, PanicDivZero)
            ELSE LET multiplier == s.blockNumber - pool.lastRewardBlock
                     reward == (multiplier * s.rewardPerBlock * pool.allocPoint)
                                  \div s.totalAllocPoint
                     accRewardPerShare ==
                         IF accrues
                         THEN pool.accRewardPerShare + ((reward * PRECISION) \div pool.totalStaked)
                         ELSE pool.accRewardPerShare
                     value == ((position.amount * accRewardPerShare) \div PRECISION)
                                 - position.rewardDebt
                 IN IF value < 0 THEN Revert(s, PanicArith)
                    ELSE Result(OK, s, value, 0, 0, NoCredit)

(* --------------------------- position ledger -------------------------- *)
(* Settlement as in deposit and withdraw: the pending reward of the        *)
(* position against the accrued pool; the subtraction reverts when the     *)
(* debt exceeds the accrued value (checked arithmetic).                    *)
settlePending(s, pid, user) ==
    LET pool == s.poolInfo[pid + 1]
        position == s.userPositions[pid][user]
    IN ((position.amount * pool.accRewardPerShare) \div PRECISION) - position.rewardDebt

depositStakesBeforeAccrual(s, sender, pid, amount, transferOk) ==
    IF s.paused THEN Revert(s, SystemPaused)
    ELSE IF pid >= Len(s.poolInfo) THEN Revert(s, InvalidPool)
    ELSE IF amount <= 0 THEN Revert(s, InvalidAmount)
    ELSE LET u == updatePool([s EXCEPT !.poolInfo[pid + 1].totalStaked = @ + amount], pid) IN
      IF u.err /= OK THEN Revert(s, u.err)
      ELSE LET pool == u.st.poolInfo[pid + 1]
               position == u.st.userPositions[pid][sender]
               pending == IF position.amount > 0 THEN settlePending(u.st, pid, sender) ELSE 0
           IN IF pending < 0 THEN Revert(s, PanicArith)
              ELSE LET paid == IF pending > 0
                               THEN safeRewardTransfer(u.st, pool.rewardToken, pending)
                               ELSE 0
                       afterReward == [u.st EXCEPT !.custody[pool.rewardToken] = @ - paid]
                       newAmount == position.amount + amount
                   IN IF ~transferOk THEN Revert(s, TransferFailed)
                      ELSE Result(OK,
                             [afterReward EXCEPT
                                !.custody[pool.stakingToken] = @ + amount,
                                !.userPositions[pid][sender] =
                                    [amount |-> newAmount,
                                     lastRewardBlock |-> s.blockNumber,
                                     rewardDebt |-> (newAmount * pool.accRewardPerShare)
                                                       \div PRECISION,
                                     lockEndTime |-> s.timestamp + pool.minLockPeriod,
                                     isActive |-> TRUE],
                                !.poolInfo[pid + 1].totalStaked = @],
                             pending, paid, 0, u.credit)

depositLocksFirstStakeOnly(s, sender, pid, amount, transferOk) ==
    IF s.paused THEN Revert(s, SystemPaused)
    ELSE IF pid >= Len(s.poolInfo) THEN Revert(s, InvalidPool)
    ELSE IF amount <= 0 THEN Revert(s, InvalidAmount)
    ELSE LET u == updatePool(s, pid) IN
      IF u.err /= OK THEN Revert(s, u.err)
      ELSE LET pool == u.st.poolInfo[pid + 1]
               position == u.st.userPositions[pid][sender]
               pending == IF position.amount > 0 THEN settlePending(u.st, pid, sender) ELSE 0
           IN IF pending < 0 THEN Revert(s, PanicArith)
              ELSE LET paid == IF pending > 0
                               THEN safeRewardTransfer(u.st, pool.rewardToken, pending)
                               ELSE 0
                       afterReward == [u.st EXCEPT !.custody[pool.rewardToken] = @ - paid]
                       newAmount == position.amount + amount
                   IN IF ~transferOk THEN Revert(s, TransferFailed)
                      ELSE Result(OK,
                             [afterReward EXCEPT
                                !.custody[pool.stakingToken] = @ + amount,
                                !.userPositions[pid][sender] =
                                    [amount |-> newAmount,
                                     lastRewardBlock |-> s.blockNumber,
                                     rewardDebt |-> (newAmount * pool.accRewardPerShare)
                                                       \div PRECISION,
                                     lockEndTime |-> IF position.amount > 0
                                                     THEN position.lockEndTime
                                                     ELSE s.timestamp + pool.minLockPeriod,
                                     isActive |-> TRUE],
                                !.poolInfo[pid + 1].totalStaked = @ + amount],
                             pending, paid, 0, u.credit)

depositAcceptsZero(s, sender, pid, amount, transferOk) ==
    IF s.paused THEN Revert(s, SystemPaused)
    ELSE IF pid >= Len(s.poolInfo) THEN Revert(s, InvalidPool)
    ELSE LET u == updatePool(s, pid) IN
      IF u.err /= OK THEN Revert(s, u.err)
      ELSE LET pool == u.st.poolInfo[pid + 1]
               position == u.st.userPositions[pid][sender]
               pending == IF position.amount > 0 THEN settlePending(u.st, pid, sender) ELSE 0
           IN IF pending < 0 THEN Revert(s, PanicArith)
              ELSE LET paid == IF pending > 0
                               THEN safeRewardTransfer(u.st, pool.rewardToken, pending)
                               ELSE 0
                       afterReward == [u.st EXCEPT !.custody[pool.rewardToken] = @ - paid]
                       newAmount == position.amount + amount
                   IN IF ~transferOk THEN Revert(s, TransferFailed)
                      ELSE Result(OK,
                             [afterReward EXCEPT
                                !.custody[pool.stakingToken] = @ + amount,
                                !.userPositions[pid][sender] =
                                    [amount |-> newAmount,
                                     lastRewardBlock |-> s.blockNumber,
                                     rewardDebt |-> (newAmount * pool.accRewardPerShare)
                                                       \div PRECISION,
                                     lockEndTime |-> s.timestamp + pool.minLockPeriod,
                                     isActive |-> TRUE],
                                !.poolInfo[pid + 1].totalStaked = @ + amount],
                             pending, paid, 0, u.credit)

depositBlendFirst(s, sender, pid, amount, transferOk) ==
    IF s.paused THEN Revert(s, SystemPaused)
    ELSE IF pid >= Len(s.poolInfo) THEN Revert(s, InvalidPool)
    ELSE IF amount <= 0 THEN Revert(s, InvalidAmount)
    ELSE LET u == updatePool(s, pid) IN
      IF u.err /= OK THEN Revert(s, u.err)
      ELSE LET pool == u.st.poolInfo[pid + 1]
               position == u.st.userPositions[pid][sender]
               pending == IF position.amount > 0
                          THEN (((position.amount + amount) * pool.accRewardPerShare)
                                   \div PRECISION) - position.rewardDebt
                          ELSE 0
           IN IF pending < 0 THEN Revert(s, PanicArith)
              ELSE LET paid == IF pending > 0
                               THEN safeRewardTransfer(u.st, pool.rewardToken, pending)
                               ELSE 0
                       afterReward == [u.st EXCEPT !.custody[pool.rewardToken] = @ - paid]
                       newAmount == position.amount + amount
                   IN IF ~transferOk THEN Revert(s, TransferFailed)
                      ELSE Result(OK,
                             [afterReward EXCEPT
                                !.custody[pool.stakingToken] = @ + amount,
                                !.userPositions[pid][sender] =
                                    [amount |-> newAmount,
                                     lastRewardBlock |-> s.blockNumber,
                                     rewardDebt |-> (newAmount * pool.accRewardPerShare)
                                                       \div PRECISION,
                                     lockEndTime |-> s.timestamp + pool.minLockPeriod,
                                     isActive |-> TRUE],
                                !.poolInfo[pid + 1].totalStaked = @ + amount],
                             pending, paid, 0, u.credit)

depositDebtOnOldAmount(s, sender, pid, amount, transferOk) ==
    IF s.paused THEN Revert(s, SystemPaused)
    ELSE IF pid >= Len(s.poolInfo) THEN Revert(s, InvalidPool)
    ELSE IF amount <= 0 THEN Revert(s, InvalidAmount)
    ELSE LET u == updatePool(s, pid) IN
      IF u.err /= OK THEN Revert(s, u.err)
      ELSE LET pool == u.st.poolInfo[pid + 1]
               position == u.st.userPositions[pid][sender]
               pending == IF position.amount > 0 THEN settlePending(u.st, pid, sender) ELSE 0
           IN IF pending < 0 THEN Revert(s, PanicArith)
              ELSE LET paid == IF pending > 0
                               THEN safeRewardTransfer(u.st, pool.rewardToken, pending)
                               ELSE 0
                       afterReward == [u.st EXCEPT !.custody[pool.rewardToken] = @ - paid]
                       newAmount == position.amount + amount
                   IN IF ~transferOk THEN Revert(s, TransferFailed)
                      ELSE Result(OK,
                             [afterReward EXCEPT
                                !.custody[pool.stakingToken] = @ + amount,
                                !.userPositions[pid][sender] =
                                    [amount |-> newAmount,
                                     lastRewardBlock |-> s.blockNumber,
                                     rewardDebt |-> (position.amount * pool.accRewardPerShare)
                                                       \div PRECISION,
                                     lockEndTime |-> s.timestamp + pool.minLockPeriod,
                                     isActive |-> TRUE],
                                !.poolInfo[pid + 1].totalStaked = @ + amount],
                             pending, paid, 0, u.credit)

deposit(s, sender, pid, amount, transferOk) ==
    IF s.paused THEN Revert(s, SystemPaused)
    ELSE IF pid >= Len(s.poolInfo) THEN Revert(s, InvalidPool)
    ELSE IF amount <= 0 THEN Revert(s, InvalidAmount)
    ELSE LET u == updatePool(s, pid) IN
      IF u.err /= OK THEN Revert(s, u.err)
      ELSE LET pool == u.st.poolInfo[pid + 1]
               position == u.st.userPositions[pid][sender]
               pending == IF position.amount > 0 THEN settlePending(u.st, pid, sender) ELSE 0
           IN IF pending < 0 THEN Revert(s, PanicArith)
              ELSE LET paid == IF pending > 0
                               THEN safeRewardTransfer(u.st, pool.rewardToken, pending)
                               ELSE 0
                       afterReward == [u.st EXCEPT !.custody[pool.rewardToken] = @ - paid]
                       newAmount == position.amount + amount
                   IN IF ~transferOk THEN Revert(s, TransferFailed)
                      ELSE Result(OK,
                             [afterReward EXCEPT
                                !.custody[pool.stakingToken] = @ + amount,
                                !.userPositions[pid][sender] =
                                    [amount |-> newAmount,
                                     lastRewardBlock |-> s.blockNumber,
                                     rewardDebt |-> (newAmount * pool.accRewardPerShare)
                                                       \div PRECISION,
                                     lockEndTime |-> s.timestamp + pool.minLockPeriod,
                                     isActive |-> TRUE],
                                !.poolInfo[pid + 1].totalStaked = @ + amount],
                             pending, paid, 0, u.credit)

withdrawKeepsShortfallOwed(s, sender, pid, amount) ==
    IF pid >= Len(s.poolInfo) THEN Revert(s, InvalidPool)
    ELSE LET position0 == s.userPositions[pid][sender] IN
      IF ~(position0.amount >= amount) THEN Revert(s, InsufficientPosition)
      ELSE IF ~(s.timestamp >= position0.lockEndTime) THEN Revert(s, PositionLocked)
      ELSE LET u == updatePool(s, pid) IN
        IF u.err /= OK THEN Revert(s, u.err)
        ELSE LET pool == u.st.poolInfo[pid + 1]
                 position == u.st.userPositions[pid][sender]
                 pending == settlePending(u.st, pid, sender)
             IN IF pending < 0 THEN Revert(s, PanicArith)
                ELSE LET paid == IF pending > 0
                                 THEN safeRewardTransfer(u.st, pool.rewardToken, pending)
                                 ELSE 0
                         afterReward == [u.st EXCEPT !.custody[pool.rewardToken] = @ - paid]
                         newAmount == position.amount - amount
                     IN IF afterReward.custody[pool.stakingToken] < amount
                        THEN Revert(s, TransferFailed)
                        ELSE Result(OK,
                               [afterReward EXCEPT
                                  !.userPositions[pid][sender].amount = newAmount,
                                  !.userPositions[pid][sender].rewardDebt =
                                      ((newAmount * pool.accRewardPerShare) \div PRECISION)
                                          - (pending - paid),
                                  !.userPositions[pid][sender].isActive =
                                      IF newAmount = 0 THEN FALSE ELSE @,
                                  !.poolInfo[pid + 1].totalStaked = @ - amount,
                                  !.custody[pool.stakingToken] = @ - amount],
                               pending, paid, amount, u.credit)

withdrawKeepsActive(s, sender, pid, amount) ==
    IF pid >= Len(s.poolInfo) THEN Revert(s, InvalidPool)
    ELSE LET position0 == s.userPositions[pid][sender] IN
      IF ~(position0.amount >= amount) THEN Revert(s, InsufficientPosition)
      ELSE IF ~(s.timestamp >= position0.lockEndTime) THEN Revert(s, PositionLocked)
      ELSE LET u == updatePool(s, pid) IN
        IF u.err /= OK THEN Revert(s, u.err)
        ELSE LET pool == u.st.poolInfo[pid + 1]
                 position == u.st.userPositions[pid][sender]
                 pending == settlePending(u.st, pid, sender)
             IN IF pending < 0 THEN Revert(s, PanicArith)
                ELSE LET paid == IF pending > 0
                                 THEN safeRewardTransfer(u.st, pool.rewardToken, pending)
                                 ELSE 0
                         afterReward == [u.st EXCEPT !.custody[pool.rewardToken] = @ - paid]
                         newAmount == position.amount - amount
                     IN IF afterReward.custody[pool.stakingToken] < amount
                        THEN Revert(s, TransferFailed)
                        ELSE Result(OK,
                               [afterReward EXCEPT
                                  !.userPositions[pid][sender].amount = newAmount,
                                  !.userPositions[pid][sender].rewardDebt =
                                      (newAmount * pool.accRewardPerShare) \div PRECISION,
                                  !.userPositions[pid][sender].isActive = @,
                                  !.poolInfo[pid + 1].totalStaked = @ - amount,
                                  !.custody[pool.stakingToken] = @ - amount],
                               pending, paid, amount, u.credit)

withdrawNoBalanceCheck(s, sender, pid, amount) ==
    IF pid >= Len(s.poolInfo) THEN Revert(s, InvalidPool)
    ELSE LET position0 == s.userPositions[pid][sender] IN
      IF ~(s.timestamp >= position0.lockEndTime) THEN Revert(s, PositionLocked)
      ELSE LET u == updatePool(s, pid) IN
        IF u.err /= OK THEN Revert(s, u.err)
        ELSE LET pool == u.st.poolInfo[pid + 1]
                 position == u.st.userPositions[pid][sender]
                 pending == settlePending(u.st, pid, sender)
             IN IF pending < 0 THEN Revert(s, PanicArith)
                ELSE LET paid == IF pending > 0
                                 THEN safeRewardTransfer(u.st, pool.rewardToken, pending)
                                 ELSE 0
                         afterReward == [u.st EXCEPT !.custody[pool.rewardToken] = @ - paid]
                         newAmount == position.amount - amount
                     IN IF afterReward.custody[pool.stakingToken] < amount
                        THEN Revert(s, TransferFailed)
                        ELSE Result(OK,
                               [afterReward EXCEPT
                                  !.userPositions[pid][sender].amount = newAmount,
                                  !.userPositions[pid][sender].rewardDebt =
                                      (newAmount * pool.accRewardPerShare) \div PRECISION,
                                  !.userPositions[pid][sender].isActive =
                                      IF newAmount = 0 THEN FALSE ELSE @,
                                  !.poolInfo[pid + 1].totalStaked = @ - amount,
                                  !.custody[pool.stakingToken] = @ - amount],
                               pending, paid, amount, u.credit)

withdrawKeepsLedgerOnFailedTransfer(s, sender, pid, amount) ==
    IF pid >= Len(s.poolInfo) THEN Revert(s, InvalidPool)
    ELSE LET position0 == s.userPositions[pid][sender] IN
      IF ~(position0.amount >= amount) THEN Revert(s, InsufficientPosition)
      ELSE IF ~(s.timestamp >= position0.lockEndTime) THEN Revert(s, PositionLocked)
      ELSE LET u == updatePool(s, pid) IN
        IF u.err /= OK THEN Revert(s, u.err)
        ELSE LET pool == u.st.poolInfo[pid + 1]
                 position == u.st.userPositions[pid][sender]
                 pending == settlePending(u.st, pid, sender)
             IN IF pending < 0 THEN Revert(s, PanicArith)
                ELSE LET paid == IF pending > 0
                                 THEN safeRewardTransfer(u.st, pool.rewardToken, pending)
                                 ELSE 0
                         afterReward == [u.st EXCEPT !.custody[pool.rewardToken] = @ - paid]
                         newAmount == position.amount - amount
                     IN IF afterReward.custody[pool.stakingToken] < amount
                        THEN Result(TransferFailed,
                               [afterReward EXCEPT
                                  !.userPositions[pid][sender].amount = newAmount,
                                  !.poolInfo[pid + 1].totalStaked = @ - amount],
                               pending, paid, 0, u.credit)
                        ELSE Result(OK,
                               [afterReward EXCEPT
                                  !.userPositions[pid][sender].amount = newAmount,
                                  !.userPositions[pid][sender].rewardDebt =
                                      (newAmount * pool.accRewardPerShare) \div PRECISION,
                                  !.userPositions[pid][sender].isActive =
                                      IF newAmount = 0 THEN FALSE ELSE @,
                                  !.poolInfo[pid + 1].totalStaked = @ - amount,
                                  !.custody[pool.stakingToken] = @ - amount],
                               pending, paid, amount, u.credit)

withdrawKeepsDebt(s, sender, pid, amount) ==
    IF pid >= Len(s.poolInfo) THEN Revert(s, InvalidPool)
    ELSE LET position0 == s.userPositions[pid][sender] IN
      IF ~(position0.amount >= amount) THEN Revert(s, InsufficientPosition)
      ELSE IF ~(s.timestamp >= position0.lockEndTime) THEN Revert(s, PositionLocked)
      ELSE LET u == updatePool(s, pid) IN
        IF u.err /= OK THEN Revert(s, u.err)
        ELSE LET pool == u.st.poolInfo[pid + 1]
                 position == u.st.userPositions[pid][sender]
                 pending == settlePending(u.st, pid, sender)
             IN IF pending < 0 THEN Revert(s, PanicArith)
                ELSE LET paid == IF pending > 0
                                 THEN safeRewardTransfer(u.st, pool.rewardToken, pending)
                                 ELSE 0
                         afterReward == [u.st EXCEPT !.custody[pool.rewardToken] = @ - paid]
                         newAmount == position.amount - amount
                     IN IF afterReward.custody[pool.stakingToken] < amount
                        THEN Revert(s, TransferFailed)
                        ELSE Result(OK,
                               [afterReward EXCEPT
                                  !.userPositions[pid][sender].amount = newAmount,
                                  !.userPositions[pid][sender].isActive =
                                      IF newAmount = 0 THEN FALSE ELSE @,
                                  !.poolInfo[pid + 1].totalStaked = @ - amount,
                                  !.custody[pool.stakingToken] = @ - amount],
                               pending, paid, amount, u.credit)

withdrawNoLock(s, sender, pid, amount) ==
    IF pid >= Len(s.poolInfo) THEN Revert(s, InvalidPool)
    ELSE LET position0 == s.userPositions[pid][sender] IN
      IF ~(position0.amount >= amount) THEN Revert(s, InsufficientPosition)
      ELSE LET u == updatePool(s, pid) IN
        IF u.err /= OK THEN Revert(s, u.err)
        ELSE LET pool == u.st.poolInfo[pid + 1]
                 position == u.st.userPositions[pid][sender]
                 pending == settlePending(u.st, pid, sender)
             IN IF pending < 0 THEN Revert(s, PanicArith)
                ELSE LET paid == IF pending > 0
                                 THEN safeRewardTransfer(u.st, pool.rewardToken, pending)
                                 ELSE 0
                         afterReward == [u.st EXCEPT !.custody[pool.rewardToken] = @ - paid]
                         newAmount == position.amount - amount
                     IN IF afterReward.custody[pool.stakingToken] < amount
                        THEN Revert(s, TransferFailed)
                        ELSE Result(OK,
                               [afterReward EXCEPT
                                  !.userPositions[pid][sender].amount = newAmount,
                                  !.userPositions[pid][sender].rewardDebt =
                                      (newAmount * pool.accRewardPerShare) \div PRECISION,
                                  !.userPositions[pid][sender].isActive =
                                      IF newAmount = 0 THEN FALSE ELSE @,
                                  !.poolInfo[pid + 1].totalStaked = @ - amount,
                                  !.custody[pool.stakingToken] = @ - amount],
                               pending, paid, amount, u.credit)

withdrawWhenNotPaused(s, sender, pid, amount) ==
    IF s.paused THEN Revert(s, SystemPaused)
    ELSE IF pid >= Len(s.poolInfo) THEN Revert(s, InvalidPool)
    ELSE LET position0 == s.userPositions[pid][sender] IN
      IF ~(position0.amount >= amount) THEN Revert(s, InsufficientPosition)
      ELSE IF ~(s.timestamp >= position0.lockEndTime) THEN Revert(s, PositionLocked)
      ELSE LET u == updatePool(s, pid) IN
        IF u.err /= OK THEN Revert(s, u.err)
        ELSE LET pool == u.st.poolInfo[pid + 1]
                 position == u.st.userPositions[pid][sender]
                 pending == settlePending(u.st, pid, sender)
             IN IF pending < 0 THEN Revert(s, PanicArith)
                ELSE LET paid == IF pending > 0
                                 THEN safeRewardTransfer(u.st, pool.rewardToken, pending)
                                 ELSE 0
                         afterReward == [u.st EXCEPT !.custody[pool.rewardToken] = @ - paid]
                         newAmount == position.amount - amount
                     IN IF afterReward.custody[pool.stakingToken] < amount
                        THEN Revert(s, TransferFailed)
                        ELSE Result(OK,
                               [afterReward EXCEPT
                                  !.userPositions[pid][sender].amount = newAmount,
                                  !.userPositions[pid][sender].rewardDebt =
                                      (newAmount * pool.accRewardPerShare) \div PRECISION,
                                  !.userPositions[pid][sender].isActive =
                                      IF newAmount = 0 THEN FALSE ELSE @,
                                  !.poolInfo[pid + 1].totalStaked = @ - amount,
                                  !.custody[pool.stakingToken] = @ - amount],
                               pending, paid, amount, u.credit)

withdraw(s, sender, pid, amount) ==
    IF pid >= Len(s.poolInfo) THEN Revert(s, InvalidPool)
    ELSE LET position0 == s.userPositions[pid][sender] IN
      IF ~(position0.amount >= amount) THEN Revert(s, InsufficientPosition)
      ELSE IF ~(s.timestamp >= position0.lockEndTime) THEN Revert(s, PositionLocked)
      ELSE LET u == updatePool(s, pid) IN
        IF u.err /= OK THEN Revert(s, u.err)
        ELSE LET pool == u.st.poolInfo[pid + 1]
                 position == u.st.userPositions[pid][sender]
                 pending == settlePending(u.st, pid, sender)
             IN IF pending < 0 THEN Revert(s, PanicArith)
                ELSE LET paid == IF pending > 0
                                 THEN safeRewardTransfer(u.st, pool.rewardToken, pending)
                                 ELSE 0
                         afterReward == [u.st EXCEPT !.custody[pool.rewardToken] = @ - paid]
                         newAmount == position.amount - amount
                     IN IF afterReward.custody[pool.stakingToken] < amount
                        THEN Revert(s, TransferFailed)
                        ELSE Result(OK,
                               [afterReward EXCEPT
                                  !.userPositions[pid][sender].amount = newAmount,
                                  !.userPositions[pid][sender].rewardDebt =
                                      (newAmount * pool.accRewardPerShare) \div PRECISION,
                                  !.userPositions[pid][sender].isActive =
                                      IF newAmount = 0 THEN FALSE ELSE @,
                                  !.poolInfo[pid + 1].totalStaked = @ - amount,
                                  !.custody[pool.stakingToken] = @ - amount],
                               pending, paid, amount, u.credit)

emergencyWithdrawSendsFeeAway(s, sender, pid) ==
    IF pid >= Len(s.poolInfo) THEN Revert(s, InvalidPool)
    ELSE LET pool == s.poolInfo[pid + 1]
             position == s.userPositions[pid][sender]
         IN IF ~(position.amount > 0) THEN Revert(s, NoPosition)
            ELSE IF ~pool.isEmergencyWithdrawEnabled THEN Revert(s, EmergencyDisabled)
            ELSE LET amount == position.amount
                     fee == (amount * s.emergencyWithdrawFee) \div BPS_DENOMINATOR
                     amountAfterFee == amount - fee
                 IN IF s.custody[pool.stakingToken] < amountAfterFee
                    THEN Revert(s, TransferFailed)
                    ELSE Result(OK,
                           [s EXCEPT
                              !.userPositions[pid][sender].amount = 0,
                              !.userPositions[pid][sender].rewardDebt = 0,
                              !.userPositions[pid][sender].isActive = FALSE,
                              !.poolInfo[pid + 1].totalStaked = @ - amount,
                              !.custody[pool.stakingToken] = @ - amount],
                           0, 0, amountAfterFee, NoCredit)

emergencyWithdrawIgnoresFlag(s, sender, pid) ==
    IF pid >= Len(s.poolInfo) THEN Revert(s, InvalidPool)
    ELSE LET pool == s.poolInfo[pid + 1]
             position == s.userPositions[pid][sender]
         IN IF ~(position.amount > 0) THEN Revert(s, NoPosition)
            ELSE LET amount == position.amount
                     fee == (amount * s.emergencyWithdrawFee) \div BPS_DENOMINATOR
                     amountAfterFee == amount - fee
                 IN IF s.custody[pool.stakingToken] < amountAfterFee
                    THEN Revert(s, TransferFailed)
                    ELSE Result(OK,
                           [s EXCEPT
                              !.userPositions[pid][sender].amount = 0,
                              !.userPositions[pid][sender].rewardDebt = 0,
                              !.userPositions[pid][sender].isActive = FALSE,
                              !.poolInfo[pid + 1].totalStaked = @ - amount,
                              !.custody[pool.stakingToken] = @ - amountAfterFee],
                           0, 0, amountAfterFee, NoCredit)

emergencyWithdrawChecksLock(s, sender, pid) ==
    IF pid >= Len(s.poolInfo) THEN Revert(s, InvalidPool)
    ELSE LET pool == s.poolInfo[pid + 1]
             position == s.userPositions[pid][sender]
         IN IF ~(position.amount > 0) THEN Revert(s, NoPosition)
            ELSE IF ~pool.isEmergencyWithdrawEnabled THEN Revert(s, EmergencyDisabled)
            ELSE IF ~(s.timestamp >= position.lockEndTime) THEN Revert(s, PositionLocked)
            ELSE LET amount == position.amount
                     fee == (amount * s.emergencyWithdrawFee) \div BPS_DENOMINATOR
                     amountAfterFee == amount - fee
                 IN IF s.custody[pool.stakingToken] < amountAfterFee
                    THEN Revert(s, TransferFailed)
                    ELSE Result(OK,
                           [s EXCEPT
                              !.userPositions[pid][sender].amount = 0,
                              !.userPositions[pid][sender].rewardDebt = 0,
                              !.userPositions[pid][sender].isActive = FALSE,
                              !.poolInfo[pid + 1].totalStaked = @ - amount,
                              !.custody[pool.stakingToken] = @ - amountAfterFee],
                           0, 0, amountAfterFee, NoCredit)

emergencyWithdrawNetOfFee(s, sender, pid) ==
    IF pid >= Len(s.poolInfo) THEN Revert(s, InvalidPool)
    ELSE LET pool == s.poolInfo[pid + 1]
             position == s.userPositions[pid][sender]
         IN IF ~(position.amount > 0) THEN Revert(s, NoPosition)
            ELSE IF ~pool.isEmergencyWithdrawEnabled THEN Revert(s, EmergencyDisabled)
            ELSE LET amount == position.amount
                     fee == (amount * s.emergencyWithdrawFee) \div BPS_DENOMINATOR
                     amountAfterFee == amount - fee
                 IN IF s.custody[pool.stakingToken] < amountAfterFee
                    THEN Revert(s, TransferFailed)
                    ELSE Result(OK,
                           [s EXCEPT
                              !.userPositions[pid][sender].amount = 0,
                              !.userPositions[pid][sender].rewardDebt = 0,
                              !.userPositions[pid][sender].isActive = FALSE,
                              !.poolInfo[pid + 1].totalStaked = @ - amountAfterFee,
                              !.custody[pool.stakingToken] = @ - amountAfterFee],
                           0, 0, amountAfterFee, NoCredit)

emergencyWithdrawNoFee(s, sender, pid) ==
    IF pid >= Len(s.poolInfo) THEN Revert(s, InvalidPool)
    ELSE LET pool == s.poolInfo[pid + 1]
             position == s.userPositions[pid][sender]
         IN IF ~(position.amount > 0) THEN Revert(s, NoPosition)
            ELSE IF ~pool.isEmergencyWithdrawEnabled THEN Revert(s, EmergencyDisabled)
            ELSE LET amount == position.amount
                     fee == (amount * s.emergencyWithdrawFee) \div BPS_DENOMINATOR
                     amountAfterFee == amount
                 IN IF s.custody[pool.stakingToken] < amountAfterFee
                    THEN Revert(s, TransferFailed)
                    ELSE Result(OK,
                           [s EXCEPT
                              !.userPositions[pid][sender].amount = 0,
                              !.userPositions[pid][sender].rewardDebt = 0,
                              !.userPositions[pid][sender].isActive = FALSE,
                              !.poolInfo[pid + 1].totalStaked = @ - amount,
                              !.custody[pool.stakingToken] = @ - amountAfterFee],
                           0, 0, amountAfterFee, NoCredit)

emergencyWithdraw(s, sender, pid) ==
    IF pid >= Len(s.poolInfo) THEN Revert(s, InvalidPool)
    ELSE LET pool == s.poolInfo[pid + 1]
             position == s.userPositions[pid][sender]
         IN IF ~(position.amount > 0) THEN Revert(s, NoPosition)
            ELSE IF ~pool.isEmergencyWithdrawEnabled THEN Revert(s, EmergencyDisabled)
            ELSE LET amount == position.amount
                     fee == (amount * s.emergencyWithdrawFee) \div BPS_DENOMINATOR
                     amountAfterFee == amount - fee
                 IN IF s.custody[pool.stakingToken] < amountAfterFee
                    THEN Revert(s, TransferFailed)
                    ELSE Result(OK,
                           [s EXCEPT
                              !.userPositions[pid][sender].amount = 0,
                              !.userPositions[pid][sender].rewardDebt = 0,
                              !.userPositions[pid][sender].isActive = FALSE,
                              !.poolInfo[pid + 1].totalStaked = @ - amount,
                              !.custody[pool.stakingToken] = @ - amountAfterFee],
                           0, 0, amountAfterFee, NoCredit)

rebalancePositionAnyPosition(s, sender, pid, user, newAmount) ==
    IF sender \notin s.authorizedRebalancers THEN Revert(s, NotAuthorized)
    ELSE IF pid >= Len(s.poolInfo) THEN Revert(s, InvalidPool)
    ELSE LET u == updatePool(s, pid) IN
      IF u.err /= OK THEN Revert(s, u.err) ELSE u

rebalancePositionAppliesTarget(s, sender, pid, user, newAmount) ==
    IF sender \notin s.authorizedRebalancers THEN Revert(s, NotAuthorized)
    ELSE IF pid >= Len(s.poolInfo) THEN Revert(s, InvalidPool)
    ELSE IF ~s.userPositions[pid][user].isActive THEN Revert(s, NoActivePosition)
    ELSE LET u == updatePool(s, pid) IN
      IF u.err /= OK THEN Revert(s, u.err)
      ELSE Result(OK, [u.st EXCEPT !.userPositions[pid][user].amount = newAmount],
                  0, 0, 0, u.credit)

rebalancePosition(s, sender, pid, user, newAmount) ==
    IF sender \notin s.authorizedRebalancers THEN Revert(s, NotAuthorized)
    ELSE IF pid >= Len(s.poolInfo) THEN Revert(s, InvalidPool)
    ELSE IF ~s.userPositions[pid][user].isActive THEN Revert(s, NoActivePosition)
    ELSE LET u == updatePool(s, pid) IN
      IF u.err /= OK THEN Revert(s, u.err) ELSE u

(* ------------------------ pool registry and admin --------------------- *)
addPoolForgetsWeight(s, sender, stakingToken, rewardToken, allocPoint, minLockPeriod) ==
    IF sender /= Owner THEN Revert(s, Unauthorized)
    ELSE IF stakingToken = ZeroAddress THEN Revert(s, InvalidStakingToken)
    ELSE IF rewardToken = ZeroAddress THEN Revert(s, InvalidRewardToken)
    ELSE LET m == massUpdatePools(s) IN
      IF m.err /= OK THEN Revert(s, m.err)
      ELSE Result(OK,
             [m.st EXCEPT
                !.totalAllocPoint = @,
                !.poolInfo = Append(@, [stakingToken |-> stakingToken,
                                        rewardToken |-> rewardToken,
                                        allocPoint |-> allocPoint,
                                        lastRewardBlock |-> s.blockNumber,
                                        accRewardPerShare |-> 0,
                                        totalStaked |-> 0,
                                        minLockPeriod |-> minLockPeriod,
                                        isEmergencyWithdrawEnabled |-> FALSE])],
             0, 0, 0, m.credit)

addPoolPrepends(s, sender, stakingToken, rewardToken, allocPoint, minLockPeriod) ==
    IF sender /= Owner THEN Revert(s, Unauthorized)
    ELSE IF stakingToken = ZeroAddress THEN Revert(s, InvalidStakingToken)
    ELSE IF rewardToken = ZeroAddress THEN Revert(s, InvalidRewardToken)
    ELSE LET m == massUpdatePools(s) IN
      IF m.err /= OK THEN Revert(s, m.err)
      ELSE Result(OK,
             [m.st EXCEPT
                !.totalAllocPoint = @ + allocPoint,
                !.poolInfo = << [stakingToken |-> stakingToken,
                                        rewardToken |-> rewardToken,
                                        allocPoint |-> allocPoint,
                                        lastRewardBlock |-> s.blockNumber,
                                        accRewardPerShare |-> 0,
                                        totalStaked |-> 0,
                                        minLockPeriod |-> minLockPeriod,
                                        isEmergencyWithdrawEnabled |-> FALSE] >> \o @],
             0, 0, 0, m.credit)

addPoolWeightFirst(s, sender, stakingToken, rewardToken, allocPoint, minLockPeriod) ==
    IF sender /= Owner THEN Revert(s, Unauthorized)
    ELSE IF stakingToken = ZeroAddress THEN Revert(s, InvalidStakingToken)
    ELSE IF rewardToken = ZeroAddress THEN Revert(s, InvalidRewardToken)
    ELSE LET m == massUpdatePools([s EXCEPT !.totalAllocPoint = @ + allocPoint]) IN
      IF m.err /= OK THEN Revert(s, m.err)
      ELSE Result(OK,
             [m.st EXCEPT
                !.totalAllocPoint = @,
                !.poolInfo = Append(@, [stakingToken |-> stakingToken,
                                        rewardToken |-> rewardToken,
                                        allocPoint |-> allocPoint,
                                        lastRewardBlock |-> s.blockNumber,
                                        accRewardPerShare |-> 0,
                                        totalStaked |-> 0,
                                        minLockPeriod |-> minLockPeriod,
                                        isEmergencyWithdrawEnabled |-> FALSE])],
             0, 0, 0, m.credit)

addPool(s, sender, stakingToken, rewardToken, allocPoint, minLockPeriod) ==
    IF sender /= Owner THEN Revert(s, Unauthorized)
    ELSE IF stakingToken = ZeroAddress THEN Revert(s, InvalidStakingToken)
    ELSE IF rewardToken = ZeroAddress THEN Revert(s, InvalidRewardToken)
    ELSE LET m == massUpdatePools(s) IN
      IF m.err /= OK THEN Revert(s, m.err)
      ELSE Result(OK,
             [m.st EXCEPT
                !.totalAllocPoint = @ + allocPoint,
                !.poolInfo = Append(@, [stakingToken |-> stakingToken,
                                        rewardToken |-> rewardToken,
                                        allocPoint |-> allocPoint,
                                        lastRewardBlock |-> s.blockNumber,
                                        accRewardPerShare |-> 0,
                                        totalStaked |-> 0,
                                        minLockPeriod |-> minLockPeriod,
                                        isEmergencyWithdrawEnabled |-> FALSE])],
             0, 0, 0, m.credit)

setRewardPerBlockNoAccrual(s, sender, value) ==
    IF sender /= Owner THEN Revert(s, Unauthorized)
    ELSE LET m == Result(OK, s, 0, 0, 0, NoCredit) IN
      IF m.err /= OK THEN Revert(s, m.err)
      ELSE Result(OK, [m.st EXCEPT !.rewardPerBlock = value], 0, 0, 0, m.credit)

setRewardPerBlock(s, sender, value) ==
    IF sender /= Owner THEN Revert(s, Unauthorized)
    ELSE LET m == massUpdatePools(s) IN
      IF m.err /= OK THEN Revert(s, m.err)
      ELSE Result(OK, [m.st EXCEPT !.rewardPerBlock = value], 0, 0, 0, m.credit)

setEmergencyWithdrawFeeBelowMax(s, sender, fee) ==
    IF sender /= Owner THEN Revert(s, Unauthorized)
    ELSE IF ~(fee < MAX_FEE) THEN Revert(s, FeeTooHigh)
    ELSE Result(OK, [s EXCEPT !.emergencyWithdrawFee = fee], 0, 0, 0, NoCredit)

setEmergencyWithdrawFee(s, sender, fee) ==
    IF sender /= Owner THEN Revert(s, Unauthorized)
    ELSE IF ~(fee <= MAX_FEE) THEN Revert(s, FeeTooHigh)
    ELSE Result(OK, [s EXCEPT !.emergencyWithdrawFee = fee], 0, 0, 0, NoCredit)

toggleEmergencyWithdrawIgnoresIndex(s, sender, pid, enabled) ==
    IF sender /= Owner THEN Revert(s, Unauthorized)
    ELSE IF pid >= Len(s.poolInfo) THEN Result(OK, s, 0, 0, 0, NoCredit)
    ELSE Result(OK, [s EXCEPT !.poolInfo[pid + 1].isEmergencyWithdrawEnabled = enabled],
                0, 0, 0, NoCredit)

toggleEmergencyWithdraw(s, sender, pid, enabled) ==
    IF sender /= Owner THEN Revert(s, Unauthorized)
    ELSE IF pid >= Len(s.poolInfo) THEN Revert(s, PanicIndex)
    ELSE Result(OK, [s EXCEPT !.poolInfo[pid + 1].isEmergencyWithdrawEnabled = enabled],
                0, 0, 0, NoCredit)

setAuthorizedRebalancer(s, sender, rebalancer, authorized) ==
    IF sender /= Owner THEN Revert(s, Unauthorized)
    ELSE Result(OK,
           [s EXCEPT !.authorizedRebalancers =
                         IF authorized THEN @ \cup {rebalancer} ELSE @ \ {rebalancer}],
           0, 0, 0, NoCredit)

pauseAnyCaller(s, sender) ==
    IF s.paused THEN Revert(s, SystemPaused)
    ELSE Result(OK, [s EXCEPT !.paused = TRUE], 0, 0, 0, NoCredit)

pause(s, sender) ==
    IF sender /= Owner THEN Revert(s, Unauthorized)
    ELSE IF s.paused THEN Revert(s, SystemPaused)
    ELSE Result(OK, [s EXCEPT !.paused = TRUE], 0, 0, 0, NoCredit)

unpause(s, sender) ==
    IF sender /= Owner THEN Revert(s, Unauthorized)
    ELSE IF ~s.paused THEN Revert(s, NotPaused)
    ELSE Result(OK, [s EXCEPT !.paused = FALSE], 0, 0, 0, NoCredit)


(* ===================== builder-score tracker script ==================== *)
(* BuilderScoreTracker (src/unnamed/part_003, and src/index.js for the     *)
(* methods they share).  JavaScript strings are sequences of one-character *)
(* strings, so that includes, startsWith and split are computed on the     *)
(* text and not assumed.                                                   *)
MaxContracts == 2
MaxEvents == 2

Transfer == <<"t", "r", "a", "n", "s", "f", "e", "r">>
BalanceOf == <<"b", "a", "l", "a", "n", "c", "e", "O", "f">>
TokenURI == <<"t", "o", "k", "e", "n", "U", "R", "I">>
OwnerOf == <<"o", "w", "n", "e", "r", "O", "f">>
Swap == <<"s", "w", "a", "p">>
Liquidity == <<"l", "i", "q", "u", "i", "d", "i", "t", "y">>
Space == <<" ">>

(* String.prototype.includes: needle occurs in code at some position.      *)
Includes(code, needle) ==
    \E i \in 0 .. (Len(code) - Len(needle)) :
        SubSeq(code, i + 1, i + Len(needle)) = needle

(* String.prototype.startsWith.                                            *)
StartsWith(s, prefix) ==
    Len(prefix) <= Len(s) /\ SubSeq(s, 1, Len(prefix)) = prefix

(* s.split('T')[0]: the text before the first 'T' (all of s without one).  *)
SplitT0(s) ==
    IF \E i \in 1 .. Len(s) : s[i] = "T"
    THEN LET first == CHOOSE i \in 1 .. Len(s) :
                         s[i] = "T" /\ \A j \in 1 .. (i - 1) : s[j] /= "T"
         IN SubSeq(s, 1, first - 1)
    ELSE s

(* A contract object as returned by the contracts endpoint: its bytecode   *)
(* property is a string or is missing.                                     *)
Contract(bytecode) == [hasBytecode |-> TRUE, bytecode |-> bytecode]

NoBytecode == [hasBytecode |-> FALSE, bytecode |-> << >>]

Join(a, b) == a \o Space \o b

(* The bytecodes of the test file (src/unnamed/part_002), by the type it   *)
(* expects for them.                                                        *)
TestBytecodes ==
    [ERC20 |-> Join(Join(Transfer, BalanceOf), <<"a", "p", "p", "r", "o", "v", "e">>),
     ERC721 |-> Join(Join(TokenURI, OwnerOf), <<"s", "a", "f", "e", "T", "r", "a", "n", "s", "f", "e", "r", "F", "r", "o", "m">>),
     DeFi |-> Join(Join(Swap, Liquidity), <<"a", "d", "d", "L", "i", "q", "u", "i", "d", "i", "t", "y">>),
     Other |-> <<"f", "u", "n", "c", "t", "i", "o", "n", " ", "u", "n", "k", "n", "o", "w", "n", "F", "u", "n", "c", "t", "i", "o", "n", "(", ")">>]

(* The bytecodes analysed: those of the tests, bytecodes holding the        *)
(* keywords of several types or half of a pair, keywords that occur only    *)
(* inside longer identifiers, and the empty string.                         *)
Bytecodes ==
    {TestBytecodes[k] : k \in DOMAIN TestBytecodes} \cup
    { Join(Join(Join(Swap, Liquidity), Join(TokenURI, OwnerOf)), Join(BalanceOf, Transfer)),
      Join(Join(Swap, Liquidity), Join(OwnerOf, TokenURI)),
      Join(Join(Transfer, TokenURI), Swap),
      Join(<<"s", "a", "f", "e", "T", "r", "a", "n", "s", "f", "e", "r", "F", "r", "o", "m">>, BalanceOf),
      Join(<<"t", "r", "a", "n", "s", "f", "e", "r", "F", "r", "o", "m">>, <<"b", "a", "l", "a", "n", "c", "e", "O", "f", "B", "a", "t", "c", "h">>),
      << >> }

(* Lists of at most MaxContracts contracts, with or without bytecode.       *)
ContractLists ==
    LET Contracts == {Contract(b) : b \in Bytecodes} \cup {NoBytecode}
    IN UNION {[1 .. n -> Contracts] : n \in 0 .. MaxContracts}

ContractTypes == {"ERC20", "ERC721", "DeFi", "Other"}

detectContractTypeDeFiFirst(contract) ==
    LET code == IF contract.hasBytecode /\ contract.bytecode /= << >>
                THEN contract.bytecode ELSE << >>
    IN IF Includes(code, Swap) /\ Includes(code, Liquidity) THEN "DeFi"
       ELSE IF Includes(code, TokenURI) /\ Includes(code, OwnerOf) THEN "ERC721"
       ELSE IF Includes(code, Transfer) /\ Includes(code, BalanceOf) THEN "ERC20"
       ELSE "Other"

detectContractType(contract) ==
    LET code == IF contract.hasBytecode /\ contract.bytecode /= << >>
                THEN contract.bytecode ELSE << >>
    IN IF Includes(code, Transfer) /\ Includes(code, BalanceOf) THEN "ERC20"
       ELSE IF Includes(code, TokenURI) /\ Includes(code, OwnerOf) THEN "ERC721"
       ELSE IF Includes(code, Swap) /\ Includes(code, Liquidity) THEN "DeFi"
       ELSE "Other"

(* The types object: a property for each type seen so far, with its count. *)
NoTypes == [k \in {} |-> 0]

(* contracts.forEach: types[type] = (types[type] || 0) + 1.                *)
RECURSIVE forEachContract(_, _)
forEachContract(contracts, types) ==
    IF contracts = << >> THEN types
    ELSE LET type == detectContractType(Head(contracts))
             previous == IF type \in DOMAIN types /\ types[type] /= 0
                         THEN types[type] ELSE 0
         IN forEachContract(Tail(contracts),
                            [k \in DOMAIN types \cup {type} |->
                                IF k = type THEN previous + 1 ELSE types[k]])

analyzeContractTypes(contracts) == forEachContract(contracts, NoTypes)

(* The outcome of an awaited request: resolved with a value or rejected    *)
(* with an Error carrying a message.                                       *)
Resolved(value) == [settled |-> "resolved", value |-> value, message |-> ""]

Rejected(message) == [settled |-> "rejected", value |-> << >>, message |-> message]

(* What a method of the tracker hands back to its caller: a value or null  *)
(* (threw would mark an exception that propagates to the caller).          *)
Returns(value) == [threw |-> FALSE, isNull |-> FALSE, value |-> value]

ReturnsNull == [threw |-> FALSE, isNull |-> TRUE, value |-> << >>]

NotCalled == [threw |-> FALSE, isNull |-> FALSE, value |-> <<"not called">>]

(* GitHub events: created_at is an ISO timestamp or is missing.            *)
GitHubEvent(created_at) == [hasCreatedAt |-> TRUE, created_at |-> created_at]

EventWithoutDate == [hasCreatedAt |-> FALSE, created_at |-> << >>]

Timestamps == { <<"0", "1", "T", "2", "3">>, <<"0", "2", "T", "0", "0">> }

(* response.data of the events request: an array of events, or a body that *)
(* is not an array.                                                        *)
EventsData(items) == [isArray |-> TRUE, items |-> items]

NotAnArray == [isArray |-> FALSE, items |-> << >>]

(* Outcomes of axios.get: lists of at most MaxEvents events, a body that   *)
(* is not an array, and the failures of the tests.                         *)
GitHubResponses ==
    LET GitHubEvents == {GitHubEvent(ts) : ts \in Timestamps} \cup {EventWithoutDate}
        EventLists == UNION {[1 .. n -> GitHubEvents] : n \in 0 .. MaxEvents}
    IN {Resolved(EventsData(items)) : items \in EventLists}
          \cup {Resolved(NotAnArray), Rejected("API Error"), Rejected("ETIMEDOUT")}

(* Outcomes of provider.getBlockNumber.                                     *)
RpcResponses ==
    {Resolved(<<n>>) : n \in {0, 19000000}}
        \cup {Rejected("ETIMEDOUT"), Rejected("ECONNREFUSED")}

(* try { ... } catch (error) { console.error(..., error.message); return   *)
(* null }: a rejected request, and a TypeError raised while the response   *)
(* is processed (events.filter on a body that is not an array,             *)
(* created_at.startsWith on an event without created_at), end in the catch *)
(* block.                                                                  *)
trackGitHubActivity(response, now) ==
    IF response.settled = "rejected" THEN ReturnsNull
    ELSE LET data == response.value IN
      IF ~data.isArray THEN ReturnsNull
      ELSE LET today == SplitT0(now) IN
        IF \E i \in 1 .. Len(data.items) : ~data.items[i].hasCreatedAt
        THEN ReturnsNull
        ELSE LET isToday(event) == StartsWith(event.created_at, today)
                 todayEvents == SelectSeq(data.items, isToday)
             IN Returns([totalEvents |-> Len(data.items),
                         todayEvents |-> Len(todayEvents)])

checkBaseNetwork(response) ==
    IF response.settled = "rejected" THEN ReturnsNull
    ELSE Returns(response.value)

(* How the two string literals of displayOptimizationTips and run that     *)
(* begin with a line feed are written: "raw" is the file as it is stored   *)
(* (the line feed itself stands between the quotes), "escaped" is the same *)
(* program with the line feed written as an escape sequence.               *)
Literals == {"raw", "escaped"}

(* A single-quoted string literal may not contain a line terminator: the   *)
(* file with the raw line feed is rejected by the parser when it is loaded *)
(* and none of its statements is executed.                                 *)
ParseModule(literals) == IF literals = "raw" THEN "SyntaxError" ELSE "loaded"

(* The tracker before node has loaded the file.                            *)
NotStarted(literals) ==
    [literals |-> literals, module |-> "unloaded", pc |-> "idle",
     networkFailed |-> FALSE, network |-> NotCalled,
     githubFailed |-> FALSE, github |-> NotCalled,
     analyzed |-> FALSE, contracts |-> << >>, types |-> NoTypes]

(* ------------------------------ the machine --------------------------- *)
NoOp == [op |-> "init", sender |-> Owner, pid |-> 0, arg |-> 0, err |-> OK,
         pending |-> 0, rewardOut |-> 0, tokenOut |-> 0,
         amountBefore |-> 0, totalBefore |-> 0, pendingBefore |-> 0]

Init ==
    /\ poolInfo = << >>
    /\ userPositions = [p \in PoolIds |-> [a \in Accounts |-> Position]]
    /\ authorizedRebalancers = {Owner}
    /\ rewardPerBlock = InitialRewardPerBlock
    /\ totalAllocPoint = 0
    /\ emergencyWithdrawFee = InitialEmergencyWithdrawFee
    /\ paused = FALSE
    /\ custody = [t \in Tokens |-> 0]
    /\ blockNumber = 1
    /\ timestamp = 1
    /\ txLeft = MaxTx
    /\ lastOp = NoOp
    /\ credited = NoCredit
    /\ settled = NoCredit
    /\ events = << >>
    /\ tracker = NotStarted("raw")

(* The events a call emits, in order.  RewardClaimed is emitted by deposit  *)
(* and withdraw exactly when the pending reward is positive; a reverted     *)
(* call emits nothing.                                                      *)
Event(name, user, pid, amount) ==
    [name |-> name, user |-> user, pid |-> pid, amount |-> amount]

EventsOf(op, user, pid, arg, r) ==
    IF r.err /= OK THEN << >>
    ELSE LET claimed == IF r.pending > 0
                        THEN << Event("RewardClaimed", user, pid, r.pending) >>
                        ELSE << >>
         IN CASE op = "deposit" -> claimed \o << Event("Deposit", user, pid, arg) >>
              [] op = "withdraw" -> claimed \o << Event("Withdraw", user, pid, arg) >>
              [] op = "emergencyWithdraw" ->
                     << Event("EmergencyWithdraw", user, pid, r.tokenOut) >>
              [] op = "rebalancePosition" ->
                     << Event("PositionRebalanced", user, pid, arg) >>
              [] op = "addPool" -> << Event("PoolAdded", user, pid, 0) >>
              [] OTHER -> << >>

(* What pendingReward(pid, sender) returns just before a call (0 when the   *)
(* view itself reverts).                                                    *)
PendingBefore(pid, sender) ==
    LET v == pendingReward(st, pid, sender)
    IN IF v.err = OK THEN v.pending ELSE 0

(* One transaction.  A call that succeeds replaces the contract state by   *)
(* the state it returns and is recorded in lastOp (with the caller's stake  *)
(* and the pool's totalStaked before the call); a call that reverts         *)
(* changes nothing at all (the EVM rolls the transaction back).  txLeft is  *)
(* the number of successful transactions the behaviour may still execute.   *)
CommitFor(op, sender, user, pid, arg, r) ==
    /\ txLeft > 0
    /\ IF r.err /= OK
       THEN UNCHANGED vars
       ELSE /\ txLeft' = txLeft - 1
            /\ poolInfo' = r.st.poolInfo
            /\ userPositions' = r.st.userPositions
            /\ authorizedRebalancers' = r.st.authorizedRebalancers
            /\ rewardPerBlock' = r.st.rewardPerBlock
            /\ totalAllocPoint' = r.st.totalAllocPoint
            /\ emergencyWithdrawFee' = r.st.emergencyWithdrawFee
            /\ paused' = r.st.paused
            /\ custody' = r.st.custody
            /\ UNCHANGED <<blockNumber, timestamp>>
            /\ lastOp' = [op |-> op, sender |-> sender, pid |-> pid, arg |-> arg,
                          err |-> r.err, pending |-> r.pending,
                          rewardOut |-> r.rewardOut, tokenOut |-> r.tokenOut,
                          amountBefore |-> IF pid < Len(poolInfo)
                                           THEN userPositions[pid][sender].amount ELSE 0,
                          totalBefore |-> IF pid < Len(poolInfo)
                                          THEN poolInfo[pid + 1].totalStaked ELSE 0,
                          pendingBefore |-> PendingBefore(pid, sender)]
            /\ credited' = [p \in PoolIds |-> credited[p] + r.credit[p]]
            /\ settled' = [p \in PoolIds |->
                              settled[p] + (IF p = pid THEN r.pending ELSE 0)]
            /\ events' = EventsOf(op, user, pid, arg, r)
            /\ UNCHANGED tracker

Commit(op, sender, pid, arg, r) == CommitFor(op, sender, sender, pid, arg, r)

AddPool(sender, cfg) ==
    /\ Len(poolInfo) < MaxPools
    /\ Commit("addPool", sender, Len(poolInfo), cfg.allocPoint,
              addPool(st, sender, cfg.stakingToken, cfg.rewardToken,
                      cfg.allocPoint, cfg.minLockPeriod))

Deposit(sender, pid, amount, transferOk) ==
    /\ pid \in PoolIds => userPositions[pid][sender].amount + amount <= MaxStake
    /\ Commit("deposit", sender, pid, amount, deposit(st, sender, pid, amount, transferOk))

Withdraw(sender, pid, amount) ==
    /\ amount >= 0
    /\ Commit("withdraw", sender, pid, amount, withdraw(st, sender, pid, amount))

EmergencyWithdraw(sender, pid) ==
    /\ pid >= 0
    /\ Commit("emergencyWithdraw", sender, pid, 0, emergencyWithdraw(st, sender, pid))

RebalancePosition(sender, pid, user, newAmount) ==
    /\ newAmount >= 0
    /\ CommitFor("rebalancePosition", sender, user, pid, newAmount,
                 rebalancePosition(st, sender, pid, user, newAmount))

UpdatePool(sender, pid) ==
    /\ pid >= 0
    /\ Commit("updatePool", sender, pid, 0, updatePool(st, pid))

MassUpdatePools(sender) ==
    /\ sender \in Accounts
    /\ Commit("massUpdatePools", sender, 0, 0, massUpdatePools(st))

SetRewardPerBlock(sender, value) ==
    /\ value >= 0
    /\ Commit("setRewardPerBlock", sender, 0, value, setRewardPerBlock(st, sender, value))

SetEmergencyWithdrawFee(sender, fee) ==
    /\ fee >= 0
    /\ Commit("setEmergencyWithdrawFee", sender, 0, fee,
              setEmergencyWithdrawFee(st, sender, fee))

ToggleEmergencyWithdraw(sender, pid, enabled) ==
    /\ pid >= 0
    /\ Commit("toggleEmergencyWithdraw", sender, pid, IF enabled THEN 1 ELSE 0,
              toggleEmergencyWithdraw(st, sender, pid, enabled))

SetAuthorizedRebalancer(sender, rebalancer, authorized) ==
    /\ rebalancer \in Accounts
    /\ Commit("setAuthorizedRebalancer", sender, 0, IF authorized THEN 1 ELSE 0,
              setAuthorizedRebalancer(st, sender, rebalancer, authorized))

Pause(sender) ==
    /\ sender \in Accounts
    /\ Commit("pause", sender, 0, 0, pause(st, sender))

Unpause(sender) ==
    /\ sender \in Accounts
    /\ Commit("unpause", sender, 0, 0, unpause(st, sender))

(* The chain produces the next block: height and time advance together.    *)
Mine ==
    /\ blockNumber < MaxBlock
    /\ blockNumber' = blockNumber + 1
    /\ timestamp' = timestamp + 1
    /\ lastOp' = [NoOp EXCEPT !.op = "mine"]
    /\ events' = << >>
    /\ UNCHANGED <<poolInfo, userPositions, authorizedRebalancers, rewardPerBlock,
                   totalAllocPoint, emergencyWithdrawFee, paused, custody,
                   txLeft, credited, settled, tracker>>

(* Anyone may send tokens to the contract (this is how rewards are funded). *)
Fund(token, amount) ==
    /\ custody[token] + amount <= MaxCustody
    /\ txLeft > 0
    /\ txLeft' = txLeft - 1
    /\ custody' = [custody EXCEPT ![token] = @ + amount]
    /\ lastOp' = [NoOp EXCEPT !.op = "fund", !.arg = amount]
    /\ events' = << >>
    /\ UNCHANGED <<poolInfo, userPositions, authorizedRebalancers, rewardPerBlock,
                   totalAllocPoint, emergencyWithdrawFee, paused,
                   blockNumber, timestamp, credited, settled, tracker>>

Next ==
    \/ \E sender \in {Owner, "alice"}, cfg \in PoolConfigs : AddPool(sender, cfg)
    \/ \E sender \in Users, pid \in 0 .. MaxPools, amount \in DepositAmounts,
          transferOk \in BOOLEAN : Deposit(sender, pid, amount, transferOk)
    \/ \E sender \in Users, pid \in 0 .. MaxPools, amount \in WithdrawAmounts :
          Withdraw(sender, pid, amount)
    \/ \E sender \in Users, pid \in 0 .. MaxPools : EmergencyWithdraw(sender, pid)
    \/ \E sender \in {Owner, "alice"}, pid \in 0 .. MaxPools, user \in Users :
          RebalancePosition(sender, pid, user, 5)
    \/ \E pid \in 0 .. MaxPools : UpdatePool("bob", pid)
    \/ MassUpdatePools("bob")
    \/ \E sender \in {Owner, "alice"}, value \in RewardRates : SetRewardPerBlock(sender, value)
    \/ \E sender \in {Owner, "alice"}, fee \in FeeValues : SetEmergencyWithdrawFee(sender, fee)
    \/ \E sender \in {Owner, "alice"}, pid \in 0 .. MaxPools, enabled \in BOOLEAN :
          ToggleEmergencyWithdraw(sender, pid, enabled)
    \/ \E sender \in {Owner, "alice"}, authorized \in BOOLEAN :
          SetAuthorizedRebalancer(sender, "alice", authorized)
    \/ \E sender \in {Owner, "alice"} : Pause(sender)
    \/ \E sender \in {Owner, "alice"} : Unpause(sender)
    \/ Mine
    \/ \E token \in Tokens, amount \in FundAmounts : Fund(token, amount)

Spec == Init /\ [][Next]_vars

(* The ledger alone, with a longer horizon: the owner registers pools and   *)
(* accounts deposit and withdraw while blocks are produced.  Every          *)
(* behaviour of SpecLedger is a behaviour of the contract.                  *)
InitLedger ==
    /\ poolInfo = << >>
    /\ userPositions = [p \in PoolIds |-> [a \in Accounts |-> Position]]
    /\ authorizedRebalancers = {Owner}
    /\ rewardPerBlock = InitialRewardPerBlock
    /\ totalAllocPoint = 0
    /\ emergencyWithdrawFee = InitialEmergencyWithdrawFee
    /\ paused = FALSE
    /\ custody = [t \in Tokens |-> 0]
    /\ blockNumber = 1
    /\ timestamp = 1
    /\ txLeft = LedgerMaxTx
    /\ lastOp = NoOp
    /\ credited = NoCredit
    /\ settled = NoCredit
    /\ events = << >>
    /\ tracker = NotStarted("raw")

NextLedger ==
    \/ \E cfg \in PoolConfigs : AddPool(Owner, cfg)
    \/ \E sender \in Users, pid \in PoolIds, amount \in DepositAmounts :
          Deposit(sender, pid, amount, TRUE)
    \/ \E sender \in Users, pid \in PoolIds, amount \in WithdrawAmounts :
          Withdraw(sender, pid, amount)
    \/ Mine

SpecLedger == InitLedger /\ [][NextLedger]_vars

(* --------------------- the tracker script as a process ----------------- *)
(* node loads the file; when it parses, the entry point constructs the     *)
(* tracker and calls run(), which awaits checkBaseNetwork, then            *)
(* trackGitHubActivity, then prints the tips and the closing line.  The    *)
(* contract is not involved and keeps its initial state.                   *)
LoadModule ==
    /\ tracker.module = "unloaded"
    /\ tracker' = [tracker EXCEPT !.module = ParseModule(tracker.literals)]
    /\ UNCHANGED contractVars

Run ==
    /\ tracker.module = "loaded"
    /\ tracker.pc = "idle"
    /\ tracker' = [tracker EXCEPT !.pc = "checkBaseNetwork"]
    /\ UNCHANGED contractVars

CheckBaseNetwork(response) ==
    /\ tracker.module = "loaded"
    /\ tracker.pc = "checkBaseNetwork"
    /\ LET r == checkBaseNetwork(response)
       IN tracker' = [tracker EXCEPT
                         !.networkFailed = (response.settled = "rejected"),
                         !.network = r,
                         !.pc = IF r.threw THEN "rejected" ELSE "trackGitHubActivity"]
    /\ UNCHANGED contractVars

TrackGitHubActivity(response, now) ==
    /\ tracker.module = "loaded"
    /\ tracker.pc = "trackGitHubActivity"
    /\ LET r == trackGitHubActivity(response, now)
       IN tracker' = [tracker EXCEPT
                         !.githubFailed = (response.settled = "rejected"),
                         !.github = r,
                         !.pc = IF r.threw THEN "rejected" ELSE "displayOptimizationTips"]
    /\ UNCHANGED contractVars

DisplayOptimizationTips ==
    /\ tracker.module = "loaded"
    /\ tracker.pc = "displayOptimizationTips"
    /\ tracker' = [tracker EXCEPT !.pc = "complete"]
    /\ UNCHANGED contractVars

(* A caller that has loaded the class classifies a list of contracts.      *)
AnalyzeContractTypes(contracts) ==
    /\ tracker.module = "loaded"
    /\ ~tracker.analyzed
    /\ tracker' = [tracker EXCEPT !.analyzed = TRUE,
                                  !.contracts = contracts,
                                  !.types = analyzeContractTypes(contracts)]
    /\ UNCHANGED contractVars

InitTracker ==
    /\ poolInfo = << >>
    /\ userPositions = [p \in PoolIds |-> [a \in Accounts |-> Position]]
    /\ authorizedRebalancers = {Owner}
    /\ rewardPerBlock = InitialRewardPerBlock
    /\ totalAllocPoint = 0
    /\ emergencyWithdrawFee = InitialEmergencyWithdrawFee
    /\ paused = FALSE
    /\ custody = [t \in Tokens |-> 0]
    /\ blockNumber = 1
    /\ timestamp = 1
    /\ txLeft = MaxTx
    /\ lastOp = NoOp
    /\ credited = NoCredit
    /\ settled = NoCredit
    /\ events = << >>
    /\ tracker \in {NotStarted(literals) : literals \in Literals}

NextTracker ==
    \/ LoadModule
    \/ Run
    \/ \E response \in RpcResponses : CheckBaseNetwork(response)
    \/ \E response \in GitHubResponses, now \in Timestamps :
          TrackGitHubActivity(response, now)
    \/ DisplayOptimizationTips
    \/ \E contracts \in ContractLists : AnalyzeContractTypes(contracts)

SpecTracker == InitTracker /\ [][NextTracker]_vars


(* ------------------------------ properties ---------------------------- *)
RECURSIVE SumOver(_, _)
SumOver(S, f) ==
    IF S = {} THEN 0
    ELSE LET x == CHOOSE y \in S : TRUE IN f[x] + SumOver(S \ {x}, f)

Pids == 0 .. (Len(poolInfo) - 1)

ActiveStake(pid) ==
    SumOver(Accounts, [a \in Accounts |->
                          IF userPositions[pid][a].isActive
                          THEN userPositions[pid][a].amount ELSE 0])

(* C1: in every reachable state the totalStaked of every pool equals the    *)
(* sum of the amounts of the active positions of that pool.                 *)
C1_TotalStakedIsSumOfActive ==
    \A pid \in Pids : poolInfo[pid + 1].totalStaked = ActiveStake(pid)

(* An emergency exit on which a non-zero fee was withheld has just left a   *)
(* pool.                                                                    *)
C1_Witness ==
    /\ lastOp.op = "emergencyWithdraw"
    /\ lastOp.amountBefore > 0
    /\ lastOp.tokenOut < lastOp.amountBefore

(* C2: rewards are never over-credited: for every pool the sum of the       *)
(* rewards settled to accounts is at most the sum of the pool rewards that  *)
(* accrual has credited to the pool.                                        *)
C2_SettledAtMostCredited ==
    \A pid \in PoolIds : settled[pid] <= credited[pid]

(* C3: in every reachable state the rewardDebt of every position is at most *)
(* amount * accRewardPerShare / PRECISION, so the pending reward is never   *)
(* negative.                                                                *)
C3_RewardDebtCovered ==
    \A pid \in Pids : \A a \in Accounts :
        userPositions[pid][a].rewardDebt
            <= (userPositions[pid][a].amount * poolInfo[pid + 1].accRewardPerShare)
                  \div PRECISION

(* A partial withdrawal has left a position with a non-zero debt.           *)
C3_Witness ==
    /\ lastOp.op = "withdraw"
    /\ lastOp.arg > 0
    /\ userPositions[lastOp.pid][lastOp.sender].amount > 0
    /\ userPositions[lastOp.pid][lastOp.sender].rewardDebt > 0

(* C4: in every step the accRewardPerShare of every pool is at least what   *)
(* it was before the step.                                                  *)
C4_AccRewardPerShareNeverDecreases ==
    [][\A pid \in Pids :
          poolInfo'[pid + 1].accRewardPerShare >= poolInfo[pid + 1].accRewardPerShare]_vars

(* A pool has been accrued a second time, with more stake than the first    *)
(* time.                                                                    *)
C4_Witness ==
    \E pid \in Pids :
        /\ poolInfo[pid + 1].lastRewardBlock = 3
        /\ poolInfo[pid + 1].totalStaked = 20
        /\ credited[pid] > InitialRewardPerBlock
        /\ poolInfo[pid + 1].accRewardPerShare > 0


Locked(pid, user) == timestamp < userPositions[pid][user].lockEndTime

(* C5 (as claimed): a Withdraw while now < lockEndTime is rejected with     *)
(* PositionLocked for every requested amount and changes nothing.           *)
C5_LockedWithdrawRejectsPositionLocked ==
    \A pid \in Pids : \A user \in Users : \A amount \in WithdrawAmounts :
        Locked(pid, user) =>
            LET r == withdraw(st, user, pid, amount)
            IN r.err = PositionLocked /\ r.st = st

(* C5 (amended): a Withdraw while now < lockEndTime is always rejected and  *)
(* changes nothing; the rejection is PositionLocked when the amount is at   *)
(* most the stake and InsufficientPosition when it exceeds the stake.       *)
C5_LockedWithdrawRejects ==
    \A pid \in Pids : \A user \in Users : \A amount \in WithdrawAmounts :
        Locked(pid, user) =>
            LET r == withdraw(st, user, pid, amount)
            IN /\ r.err = IF amount > userPositions[pid][user].amount
                          THEN InsufficientPosition ELSE PositionLocked
               /\ r.st = st

(* An account has just deposited into a pool with a lock period: a          *)
(* withdrawal of its stake is refused as locked, one of more than its stake *)
(* as insufficient.                                                         *)
C5_Witness ==
    /\ lastOp.op = "deposit"
    /\ Locked(lastOp.pid, lastOp.sender)
    /\ userPositions[lastOp.pid][lastOp.sender].amount = 10
    /\ withdraw(st, lastOp.sender, lastOp.pid, 10).err = PositionLocked
    /\ withdraw(st, lastOp.sender, lastOp.pid, 20).err = InsufficientPosition

(* C6: after the lock a Withdraw of at most the stake on an existing pool   *)
(* succeeds, whatever the pause flag, the weights, the rate and the height. *)
C6_ExitAlwaysPossible ==
    \A pid \in Pids : \A user \in Users : \A amount \in WithdrawAmounts :
        (amount <= userPositions[pid][user].amount /\ ~Locked(pid, user))
            => withdraw(st, user, pid, amount).err = OK

(* C7: while paused every Deposit is rejected with SystemPaused and changes *)
(* nothing, and Withdraw and EmergencyWithdraw give the result they give    *)
(* with paused false.                                                       *)
SameApartFromPaused(r1, r0) ==
    /\ r1.err = r0.err
    /\ r1.pending = r0.pending
    /\ r1.rewardOut = r0.rewardOut
    /\ r1.tokenOut = r0.tokenOut
    /\ [r1.st EXCEPT !.paused = FALSE] = [r0.st EXCEPT !.paused = FALSE]

C7_PauseBlocksDepositOnly ==
    LET on == [st EXCEPT !.paused = TRUE]
        off == [st EXCEPT !.paused = FALSE]
    IN /\ paused =>
            \A user \in Users : \A pid \in 0 .. MaxPools : \A amount \in DepositAmounts :
               \A transferOk \in BOOLEAN :
                  LET r == deposit(st, user, pid, amount, transferOk)
                  IN r.err = SystemPaused /\ r.st = st
       /\ \A user \in Users : \A pid \in 0 .. MaxPools :
            /\ \A amount \in WithdrawAmounts :
                  SameApartFromPaused(withdraw(on, user, pid, amount),
                                      withdraw(off, user, pid, amount))
            /\ SameApartFromPaused(emergencyWithdraw(on, user, pid),
                                   emergencyWithdraw(off, user, pid))

(* A withdrawal has just paid out while the system is paused.               *)
C7_Witness ==
    /\ paused
    /\ lastOp.op = "withdraw"
    /\ lastOp.tokenOut > 0
    /\ deposit(st, lastOp.sender, lastOp.pid, 10, TRUE).err = SystemPaused

(* C8: a successful EmergencyWithdraw on a stake a pays exactly             *)
(* a - floor(a * emergencyWithdrawFee / 10000) of the staking token and     *)
(* leaves the position with amount 0, rewardDebt 0 and isActive false.      *)
C8_EmergencyWithdrawPaysNetOfFee ==
    [][(lastOp'.op = "emergencyWithdraw" /\ txLeft' = txLeft - 1) =>
          LET pid == lastOp'.pid
              user == lastOp'.sender
              a == userPositions[pid][user].amount
              net == a - ((a * emergencyWithdrawFee) \div BPS_DENOMINATOR)
              token == poolInfo[pid + 1].stakingToken
          IN /\ lastOp'.tokenOut = net
             /\ custody'[token] = custody[token] - net
             /\ userPositions'[pid][user].amount = 0
             /\ userPositions'[pid][user].rewardDebt = 0
             /\ ~userPositions'[pid][user].isActive]_vars

(* An emergency exit has withheld a non-zero fee from a position that had   *)
(* earned reward since the pool was last accrued.                           *)
C8_Witness ==
    /\ lastOp.op = "emergencyWithdraw"
    /\ lastOp.tokenOut < lastOp.amountBefore
    /\ blockNumber > poolInfo[lastOp.pid + 1].lastRewardBlock
    /\ poolInfo[lastOp.pid + 1].allocPoint > 0

(* C9: a Deposit on an existing stake settles                               *)
(* a_old * accRewardPerShare / PRECISION - rewardDebt_old on the old amount *)
(* after accrual, then sets rewardDebt to                                   *)
(* (a_old + amount) * accRewardPerShare / PRECISION, so the pending reward  *)
(* right after the deposit is 0.                                            *)
C9_TopUpSettlesOldStakeFirst ==
    [][(lastOp'.op = "deposit" /\ txLeft' = txLeft - 1
           /\ userPositions[lastOp'.pid][lastOp'.sender].amount > 0) =>
          LET pid == lastOp'.pid
              user == lastOp'.sender
              old == userPositions[pid][user]
              acc == updatePool(st, pid).st.poolInfo[pid + 1].accRewardPerShare
              new == userPositions'[pid][user]
          IN /\ lastOp'.pending = ((old.amount * acc) \div PRECISION) - old.rewardDebt
             /\ poolInfo'[pid + 1].accRewardPerShare = acc
             /\ new.amount = old.amount + lastOp'.arg
             /\ new.rewardDebt = ((old.amount + lastOp'.arg) * acc) \div PRECISION
             /\ ((new.amount * poolInfo'[pid + 1].accRewardPerShare) \div PRECISION)
                   - new.rewardDebt = 0]_vars

(* A top-up has just settled a non-zero reward of the earlier stake.        *)
C9_Witness ==
    /\ lastOp.op = "deposit"
    /\ lastOp.amountBefore > 0
    /\ lastOp.pending > 0

(* C10: a Deposit of X directly followed, with no block in between, by a    *)
(* Withdraw of X by the same account in the same pool pays no reward,       *)
(* returns exactly X and restores the position's amount and the pool's      *)
(* totalStaked to their values before the deposit.                          *)
C10_DepositWithdrawRoundTrip ==
    [][(/\ lastOp.op = "deposit"
        /\ lastOp'.op = "withdraw"
        /\ txLeft' = txLeft - 1
        /\ lastOp'.sender = lastOp.sender
        /\ lastOp'.pid = lastOp.pid
        /\ lastOp'.arg = lastOp.arg) =>
          /\ lastOp'.pending = 0
          /\ lastOp'.rewardOut = 0
          /\ lastOp'.tokenOut = lastOp.arg
          /\ userPositions'[lastOp.pid][lastOp.sender].amount = lastOp.amountBefore
          /\ poolInfo'[lastOp.pid + 1].totalStaked = lastOp.totalBefore]_vars

(* An account has withdrawn, from a pool that had already accrued reward,   *)
(* in the block in which it deposited, and is back at its earlier stake.    *)
C10_Witness ==
    /\ lastOp.op = "withdraw"
    /\ lastOp.arg > 0
    /\ lastOp.tokenOut = lastOp.arg
    /\ lastOp.pending = 0
    /\ userPositions[lastOp.pid][lastOp.sender].lastRewardBlock = blockNumber
    /\ userPositions[lastOp.pid][lastOp.sender].amount > 0
    /\ poolInfo[lastOp.pid + 1].accRewardPerShare > 0

(* C11 (as claimed): a Deposit of amount 0 is rejected with InvalidAmount   *)
(* in every state, paused or not, whatever the pool index, and changes      *)
(* nothing.                                                                 *)
C11_ZeroDepositRejectsInvalidAmount ==
    \A sender \in Users : \A pid \in 0 .. MaxPools : \A transferOk \in BOOLEAN :
        LET r == deposit(st, sender, pid, 0, transferOk)
        IN r.err = InvalidAmount /\ r.st = st

(* C11 (amended): a Deposit of amount 0 is always rejected and changes      *)
(* nothing and emits nothing; the rejection is SystemPaused while paused,   *)
(* else InvalidPool when the pool index is out of range, else               *)
(* InvalidAmount.                                                           *)
C11_ZeroDepositRejects ==
    \A sender \in Users : \A pid \in 0 .. MaxPools : \A transferOk \in BOOLEAN :
        LET r == deposit(st, sender, pid, 0, transferOk)
        IN /\ r.st = st
           /\ EventsOf("deposit", sender, pid, 0, r) = << >>
           /\ r.err = IF paused THEN SystemPaused
                      ELSE IF pid >= Len(poolInfo) THEN InvalidPool
                      ELSE InvalidAmount

(* A block has passed over a staked pool, so a deposit would accrue the     *)
(* pool and settle a reward: a deposit of 10 is accepted there and a        *)
(* deposit of 0 is rejected with InvalidAmount.                             *)
C11_Witness ==
    /\ lastOp.op = "mine"
    /\ ~paused
    /\ \E pid \in Pids : \E sender \in Users :
          /\ PendingBefore(pid, sender) > 0
          /\ deposit(st, sender, pid, 10, TRUE).err = OK
          /\ deposit(st, sender, pid, 0, TRUE).err = InvalidAmount

(* C12: whenever a step accrues a pool with totalStaked > 0 (its            *)
(* lastRewardBlock moves), accRewardPerShare grows by exactly               *)
(* floor(floor(elapsed * rewardPerBlock * allocPoint / totalAllocPoint)     *)
(* * PRECISION / totalStaked), with elapsed = block.number -                *)
(* lastRewardBlock and the rate, weights and stake of before the step, and  *)
(* lastRewardBlock becomes block.number.                                    *)
C12_AccrualAddsFlooredShare ==
    [][\A pid \in Pids :
          LET pool == poolInfo[pid + 1]
              elapsed == blockNumber - pool.lastRewardBlock
          IN (pool.totalStaked > 0 /\ poolInfo'[pid + 1].lastRewardBlock /= pool.lastRewardBlock)
             => /\ elapsed > 0
                /\ poolInfo'[pid + 1].lastRewardBlock = blockNumber
                /\ poolInfo'[pid + 1].accRewardPerShare =
                      pool.accRewardPerShare
                      + ((((elapsed * rewardPerBlock * pool.allocPoint) \div totalAllocPoint)
                          * PRECISION) \div pool.totalStaked)]_vars

(* The single-pool accrual has just accrued a staked pool whose weight does *)
(* not divide the emission evenly (total weight 3), so both truncations     *)
(* took effect.                                                             *)
C12_Witness ==
    /\ lastOp.op = "updatePool"
    /\ totalAllocPoint = 3
    /\ lastOp.pid \in Pids
    /\ poolInfo[lastOp.pid + 1].totalStaked > 0
    /\ poolInfo[lastOp.pid + 1].lastRewardBlock = blockNumber
    /\ poolInfo[lastOp.pid + 1].accRewardPerShare > 0
    /\ credited[lastOp.pid] > 0

(* The state s at a later block b (time advances with the height).          *)
AtBlock(s, b) ==
    [s EXCEPT !.blockNumber = b, !.timestamp = s.timestamp + (b - s.blockNumber)]

RewardClaims(log) == { i \in 1 .. Len(log) : log[i].name = "RewardClaimed" }

(* A call for an account that holds no stake credits it no reward: deposit, *)
(* withdraw and pendingReward all compute a pending reward of 0.            *)
NothingCredited(s, user, pid) ==
    /\ pendingReward(s, pid, user).pending = 0
    /\ withdraw(s, user, pid, 0).pending = 0
    /\ withdraw(s, user, pid, 0).rewardOut = 0
    /\ \A amount \in DepositAmounts :
          LET d == deposit(s, user, pid, amount, TRUE)
          IN d.pending = 0 /\ d.rewardOut = 0

(* C13: EmergencyWithdraw ignores the lock and the reward.  It is never     *)
(* rejected for the lock: on a staked position of an enabled pool it fails  *)
(* only if the token transfer fails, locked or not.  When it succeeds it    *)
(* sends no reward (the only balance that changes is the staking token's,   *)
(* by the amount paid out), emits no RewardClaimed, and the pending reward  *)
(* is forfeited: at the same and at every later block a Deposit, Withdraw   *)
(* or PendingReward of the account credits nothing, as for every account    *)
(* without a stake.                                                         *)
C13_EmergencyWithdrawIgnoresLockAndReward ==
    \A pid \in Pids : \A user \in Users :
        LET pool == poolInfo[pid + 1]
            position == userPositions[pid][user]
            r == emergencyWithdraw(st, user, pid)
        IN /\ r.err /= PositionLocked
           /\ (position.amount > 0 /\ pool.isEmergencyWithdrawEnabled)
                 => r.err \in {OK, TransferFailed}
           /\ r.err = OK =>
                 /\ r.pending = 0 /\ r.rewardOut = 0
                 /\ RewardClaims(EventsOf("emergencyWithdraw", user, pid, 0, r)) = {}
                 /\ r.st.custody =
                       [custody EXCEPT ![pool.stakingToken] = @ - r.tokenOut]
                 /\ \A b \in blockNumber .. MaxBlock :
                       NothingCredited(AtBlock(r.st, b), user, pid)
           /\ position.amount = 0 => NothingCredited(st, user, pid)

(* An emergency exit has just succeeded on a position that is still locked  *)
(* and had a positive pending reward; no reward was sent.                   *)
C13_Witness ==
    /\ lastOp.op = "emergencyWithdraw"
    /\ lastOp.pendingBefore > 0
    /\ lastOp.rewardOut = 0
    /\ Locked(lastOp.pid, lastOp.sender)
    /\ RewardClaims(events) = {}
    /\ Len(events) = 1

(* C14 (as claimed): EmergencyWithdraw on a pool whose                      *)
(* isEmergencyWithdrawEnabled flag is false is rejected with                *)
(* EmergencyDisabled for every account, with or without a stake, and        *)
(* changes nothing.                                                         *)
C14_DisabledEmergencyRejectsEmergencyDisabled ==
    \A pid \in Pids : \A user \in Users :
        ~poolInfo[pid + 1].isEmergencyWithdrawEnabled =>
            LET r == emergencyWithdraw(st, user, pid)
            IN r.err = EmergencyDisabled /\ r.st = st

(* C14 (amended): EmergencyWithdraw on a pool whose flag is false is always *)
(* rejected and changes nothing and emits nothing; the rejection is         *)
(* EmergencyDisabled for an account with a stake and NoPosition for an      *)
(* account without one.                                                     *)
C14_DisabledEmergencyRejects ==
    \A pid \in Pids : \A user \in Users :
        ~poolInfo[pid + 1].isEmergencyWithdrawEnabled =>
            LET r == emergencyWithdraw(st, user, pid)
            IN /\ r.st = st
               /\ EventsOf("emergencyWithdraw", user, pid, 0, r) = << >>
               /\ r.err = IF userPositions[pid][user].amount > 0
                          THEN EmergencyDisabled ELSE NoPosition

(* A pool with the flag off holds the stake of one account and none of      *)
(* another: the first is refused with EmergencyDisabled, the second with    *)
(* NoPosition.                                                              *)
C14_Witness ==
    /\ lastOp.op = "deposit"
    /\ ~poolInfo[lastOp.pid + 1].isEmergencyWithdrawEnabled
    /\ emergencyWithdraw(st, lastOp.sender, lastOp.pid).err = EmergencyDisabled
    /\ \E other \in Users : emergencyWithdraw(st, other, lastOp.pid).err = NoPosition

TargetAmounts == {0, 5, 30}

(* C15: a successful Rebalance changes no position, no totalStaked, no      *)
(* custody balance and no policy value and sends no token: the state after  *)
(* it is the state before it except for accRewardPerShare and               *)
(* lastRewardBlock of the named pool, which are those of its accrual, and   *)
(* its only event is PositionRebalanced carrying the target amount.         *)
C15_RebalanceOnlyAccrues ==
    \A sender \in Accounts : \A pid \in Pids : \A user \in Users :
      \A newAmount \in TargetAmounts :
        LET r == rebalancePosition(st, sender, pid, user, newAmount)
            u == updatePool(st, pid)
        IN r.err = OK =>
              /\ r.st = [st EXCEPT
                           !.poolInfo[pid + 1].accRewardPerShare =
                               u.st.poolInfo[pid + 1].accRewardPerShare,
                           !.poolInfo[pid + 1].lastRewardBlock =
                               u.st.poolInfo[pid + 1].lastRewardBlock]
              /\ r.st.userPositions = userPositions
              /\ r.st.custody = custody
              /\ r.st.poolInfo[pid + 1].totalStaked = poolInfo[pid + 1].totalStaked
              /\ r.rewardOut = 0 /\ r.tokenOut = 0
              /\ EventsOf("rebalancePosition", user, pid, newAmount, r)
                    = << Event("PositionRebalanced", user, pid, newAmount) >>

(* A Rebalance with target 5 has just succeeded on a position of 10 or more *)
(* and accrued the pool over at least one block.                            *)
C15_Witness ==
    /\ lastOp.op = "rebalancePosition"
    /\ events = << Event("PositionRebalanced", events[1].user, lastOp.pid, 5) >>
    /\ userPositions[lastOp.pid][events[1].user].amount >= 10
    /\ poolInfo[lastOp.pid + 1].lastRewardBlock = blockNumber
    /\ poolInfo[lastOp.pid + 1].accRewardPerShare > 0
    /\ blockNumber > 1

(* C16: a Rebalance by a caller that is not in authorizedRebalancers is     *)
(* rejected for lack of authorization ("Not authorized"), whatever the pool *)
(* index and the target; a Rebalance by an authorized caller on a position  *)
(* of an existing pool with isActive false is rejected with                 *)
(* NoActivePosition.  In both cases the pool is not accrued: the state is   *)
(* unchanged and nothing is emitted.                                        *)
C16_RebalanceRejections ==
    \A sender \in Accounts : \A pid \in 0 .. MaxPools : \A user \in Users :
      \A newAmount \in TargetAmounts :
        LET r == rebalancePosition(st, sender, pid, user, newAmount)
            quiet == /\ r.st = st
                     /\ EventsOf("rebalancePosition", user, pid, newAmount, r) = << >>
        IN /\ sender \notin authorizedRebalancers => (r.err = NotAuthorized /\ quiet)
           /\ (sender \in authorizedRebalancers /\ pid \in Pids
                 /\ ~userPositions[pid][user].isActive)
                 => (r.err = NoActivePosition /\ quiet)

(* A block has passed over a staked pool that one account has left with a   *)
(* full Withdraw or an EmergencyWithdraw: an accrual of the pool would      *)
(* change it, the owner's Rebalance of the closed position is refused with  *)
(* NoActivePosition and a stranger's with "Not authorized".                 *)
C16_Witness ==
    /\ lastOp.op = "mine"
    /\ \E pid \in Pids : \E user \in Users :
          /\ ~userPositions[pid][user].isActive
          /\ userPositions[pid][user].lastRewardBlock > 0
          /\ poolInfo[pid + 1].totalStaked > 0
          /\ updatePool(st, pid).err = OK
          /\ updatePool(st, pid).st /= st
          /\ rebalancePosition(st, Owner, pid, user, 5).err = NoActivePosition
          /\ "bob" \notin authorizedRebalancers
          /\ rebalancePosition(st, "bob", pid, user, 5).err = NotAuthorized

(* C17: AddPool, SetRewardPerBlock, SetEmergencyWithdrawFee,                *)
(* ToggleEmergencyWithdraw, SetAuthorizedRebalancer, Pause and Unpause      *)
(* called by anyone but the owner are rejected with Unauthorized, whatever  *)
(* their arguments, and leave the pool registry and the policy state (the   *)
(* whole contract state) unchanged.                                         *)
C17_AdminOnlyOwner ==
    \A sender \in Accounts \ {Owner} :
        LET refused(r) == r.err = Unauthorized /\ r.st = st
        IN /\ \A cfg \in PoolConfigs :
                 refused(addPool(st, sender, cfg.stakingToken, cfg.rewardToken,
                                 cfg.allocPoint, cfg.minLockPeriod))
           /\ \A value \in RewardRates \cup {0} : refused(setRewardPerBlock(st, sender, value))
           /\ \A fee \in FeeValues \cup {0} : refused(setEmergencyWithdrawFee(st, sender, fee))
           /\ \A pid \in 0 .. MaxPools : \A enabled \in BOOLEAN :
                 refused(toggleEmergencyWithdraw(st, sender, pid, enabled))
           /\ \A rebalancer \in Accounts : \A authorized \in BOOLEAN :
                 refused(setAuthorizedRebalancer(st, sender, rebalancer, authorized))
           /\ refused(pause(st, sender))
           /\ refused(unpause(st, sender))

(* The contract is paused, holds a pool, and alice has been made an         *)
(* authorized rebalancer: she is still refused as an administrator, where   *)
(* the owner's unpause would be accepted.                                   *)
C17_Witness ==
    /\ paused
    /\ Len(poolInfo) > 0
    /\ "alice" \in authorizedRebalancers
    /\ unpause(st, "alice").err = Unauthorized
    /\ toggleEmergencyWithdraw(st, "alice", 0, TRUE).err = Unauthorized
    /\ unpause(st, Owner).err = OK

(* A rejected call is not applied at all: the state it leaves is the state  *)
(* before it, it sends no token and it emits nothing.                       *)
RolledBack(op, user, pid, arg, r) ==
    r.err /= OK =>
        /\ r.st = st
        /\ r.rewardOut = 0 /\ r.tokenOut = 0
        /\ EventsOf(op, user, pid, arg, r) = << >>

(* C18: whenever Deposit, Withdraw, EmergencyWithdraw, Rebalance, AddPool,  *)
(* an admin setter or an accrual is rejected, for whatever reason and at    *)
(* whatever point of its code (a failed token transfer included), all       *)
(* pools, positions, policy values and custody balances equal their values  *)
(* before the call and no event is emitted.                                 *)
C18_RejectedCallsChangeNothing ==
    /\ \A sender \in Accounts : \A pid \in 0 .. MaxPools :
          /\ \A amount \in DepositAmounts : \A transferOk \in BOOLEAN :
                RolledBack("deposit", sender, pid, amount,
                           deposit(st, sender, pid, amount, transferOk))
          /\ \A amount \in WithdrawAmounts :
                RolledBack("withdraw", sender, pid, amount,
                           withdraw(st, sender, pid, amount))
          /\ RolledBack("emergencyWithdraw", sender, pid, 0,
                        emergencyWithdraw(st, sender, pid))
          /\ \A user \in Users : \A newAmount \in TargetAmounts :
                RolledBack("rebalancePosition", user, pid, newAmount,
                           rebalancePosition(st, sender, pid, user, newAmount))
          /\ \A enabled \in BOOLEAN :
                RolledBack("toggleEmergencyWithdraw", sender, pid, 0,
                           toggleEmergencyWithdraw(st, sender, pid, enabled))
          /\ RolledBack("updatePool", sender, pid, 0, updatePool(st, pid))
    /\ \A sender \in Accounts :
          /\ \A cfg \in PoolConfigs :
                RolledBack("addPool", sender, Len(poolInfo), cfg.allocPoint,
                           addPool(st, sender, cfg.stakingToken, cfg.rewardToken,
                                   cfg.allocPoint, cfg.minLockPeriod))
          /\ \A value \in RewardRates :
                RolledBack("setRewardPerBlock", sender, 0, value,
                           setRewardPerBlock(st, sender, value))
          /\ \A fee \in FeeValues :
                RolledBack("setEmergencyWithdrawFee", sender, 0, fee,
                           setEmergencyWithdrawFee(st, sender, fee))
          /\ \A rebalancer \in Accounts : \A authorized \in BOOLEAN :
                RolledBack("setAuthorizedRebalancer", sender, 0, 0,
                           setAuthorizedRebalancer(st, sender, rebalancer, authorized))
          /\ RolledBack("pause", sender, 0, 0, pause(st, sender))
          /\ RolledBack("unpause", sender, 0, 0, unpause(st, sender))
          /\ RolledBack("massUpdatePools", sender, 0, 0, massUpdatePools(st))

(* An unlocked Withdraw of a whole stake fails at the final token transfer, *)
(* after the pool was accrued, a positive reward paid and the ledger        *)
(* written; a Deposit whose token transfer fails is rejected as well.       *)
C18_Witness ==
    \E pid \in Pids : \E user \in Users :
        /\ userPositions[pid][user].amount > 0
        /\ ~Locked(pid, user)
        /\ PendingBefore(pid, user) > 0
        /\ updatePool(st, pid).st /= st
        /\ withdraw(st, user, pid, userPositions[pid][user].amount).err = TransferFailed
        /\ deposit(st, user, pid, 10, FALSE).err = TransferFailed

(* The pool indices that name no pool.                                      *)
MissingPids == Len(poolInfo) .. MaxPools

(* C19 (as claimed): Deposit, Withdraw, EmergencyWithdraw, Rebalance,       *)
(* ToggleEmergencyWithdraw, the single-pool accrual and PendingReward are   *)
(* rejected with InvalidPool when the pool index is out of range, and       *)
(* change nothing.                                                          *)
C19_MissingPoolRejectsInvalidPool ==
    \A pid \in MissingPids : \A sender \in Accounts : \A user \in Users :
        LET refused(r) == r.err = InvalidPool /\ r.st = st
        IN /\ \A amount \in DepositAmounts : refused(deposit(st, sender, pid, amount, TRUE))
           /\ \A amount \in WithdrawAmounts : refused(withdraw(st, sender, pid, amount))
           /\ refused(emergencyWithdraw(st, sender, pid))
           /\ refused(rebalancePosition(st, sender, pid, user, 5))
           /\ \A enabled \in BOOLEAN :
                 refused(toggleEmergencyWithdraw(st, sender, pid, enabled))
           /\ refused(updatePool(st, pid))
           /\ refused(pendingReward(st, pid, user))

(* C19 (amended): with a pool index out of range all seven operations are   *)
(* rejected and change nothing.  The rejection is InvalidPool for Withdraw  *)
(* and EmergencyWithdraw, for Deposit unless the contract is paused         *)
(* (SystemPaused) and for Rebalance unless the caller is not authorized;    *)
(* ToggleEmergencyWithdraw (unless the caller is not the owner), the        *)
(* single-pool accrual and PendingReward check no index and fail with the   *)
(* out-of-bounds panic of the array access.                                 *)
C19_MissingPoolRejects ==
    \A pid \in MissingPids : \A sender \in Accounts : \A user \in Users :
        LET refused(r, err) == r.err = err /\ r.st = st
        IN /\ \A amount \in DepositAmounts : \A transferOk \in BOOLEAN :
                 refused(deposit(st, sender, pid, amount, transferOk),
                         IF paused THEN SystemPaused ELSE InvalidPool)
           /\ \A amount \in WithdrawAmounts : refused(withdraw(st, sender, pid, amount), InvalidPool)
           /\ refused(emergencyWithdraw(st, sender, pid), InvalidPool)
           /\ refused(rebalancePosition(st, sender, pid, user, 5),
                      IF sender \in authorizedRebalancers THEN InvalidPool ELSE NotAuthorized)
           /\ \A enabled \in BOOLEAN :
                 refused(toggleEmergencyWithdraw(st, sender, pid, enabled),
                         IF sender = Owner THEN PanicIndex ELSE Unauthorized)
           /\ refused(updatePool(st, pid), PanicIndex)
           /\ refused(pendingReward(st, pid, user), PanicIndex)

(* The registry holds exactly one pool, just deposited into: index 0 is     *)
(* accepted, index 1 is refused, by deposit with InvalidPool and by the     *)
(* accrual with the out-of-bounds panic.                                    *)
C19_Witness ==
    /\ lastOp.op = "deposit"
    /\ Len(poolInfo) = 1
    /\ ~paused
    /\ deposit(st, lastOp.sender, 0, 10, TRUE).err = OK
    /\ deposit(st, lastOp.sender, 1, 10, TRUE).err = InvalidPool
    /\ withdraw(st, lastOp.sender, 1, 0).err = InvalidPool
    /\ updatePool(st, 1).err = PanicIndex
    /\ toggleEmergencyWithdraw(st, Owner, 1, TRUE).err = PanicIndex

OverdrawAmounts == WithdrawAmounts \cup {MaxStake + 10}

(* C20: a Withdraw of more than the position's amount on an existing pool   *)
(* is rejected with InsufficientPosition (locked or not, paused or not) and *)
(* changes nothing; no position amount and no totalStaked is ever negative. *)
C20_OverdrawRejected ==
    \A pid \in Pids :
        /\ poolInfo[pid + 1].totalStaked >= 0
        /\ \A user \in Accounts :
              /\ userPositions[pid][user].amount >= 0
              /\ \A amount \in OverdrawAmounts :
                    amount > userPositions[pid][user].amount =>
                        LET r == withdraw(st, user, pid, amount)
                        IN r.err = InsufficientPosition /\ r.st = st

(* A partial Withdraw of 10 has just left a stake of 10 that is free to     *)
(* leave: withdrawing 10 more is accepted, withdrawing 20 is refused with   *)
(* InsufficientPosition.                                                    *)
C20_Witness ==
    /\ lastOp.op = "withdraw"
    /\ lastOp.arg = 10
    /\ userPositions[lastOp.pid][lastOp.sender].amount = 10
    /\ withdraw(st, lastOp.sender, lastOp.pid, 10).err = OK
    /\ withdraw(st, lastOp.sender, lastOp.pid, 20).err = InsufficientPosition

FeeProbes == {0, 1, InitialEmergencyWithdrawFee, MAX_FEE - 1, MAX_FEE, MAX_FEE + 1,
              BPS_DENOMINATOR}

(* C21: emergencyWithdrawFee is at most MAX_FEE (1000) in every reachable   *)
(* state; setEmergencyWithdrawFee by the owner is accepted for every value  *)
(* up to MAX_FEE, which becomes the fee, and rejected with "Fee too high"   *)
(* for every value above it, leaving the fee and everything else unchanged. *)
C21_FeeAtMostMax ==
    /\ emergencyWithdrawFee \in 0 .. MAX_FEE
    /\ \A fee \in FeeProbes :
          LET r == setEmergencyWithdrawFee(st, Owner, fee)
          IN IF fee > MAX_FEE
             THEN r.err = FeeTooHigh /\ r.st = st
             ELSE r.err = OK /\ r.st = [st EXCEPT !.emergencyWithdrawFee = fee]

(* The owner has just raised the fee to MAX_FEE; one more is refused.       *)
C21_Witness ==
    /\ lastOp.op = "setEmergencyWithdrawFee"
    /\ lastOp.arg = MAX_FEE
    /\ emergencyWithdrawFee = MAX_FEE
    /\ setEmergencyWithdrawFee(st, Owner, MAX_FEE + 1).err = FeeTooHigh

(* What an accrual of pool pid up to the current block adds to its          *)
(* accRewardPerShare, at the rate and the weights of the current state.     *)
AccrualIncrement(pid) ==
    LET pool == poolInfo[pid + 1]
        elapsed == blockNumber - pool.lastRewardBlock
    IN IF elapsed > 0 /\ pool.totalStaked > 0
       THEN (((elapsed * rewardPerBlock * pool.allocPoint) \div totalAllocPoint)
             * PRECISION) \div pool.totalStaked
       ELSE 0

(* C22: a successful setRewardPerBlock first accrues every pool up to the   *)
(* current block at the rate of before the call: after it every pool has    *)
(* lastRewardBlock = block.number and its accRewardPerShare has grown by    *)
(* the increment computed with the old rate, so the new rate applies to     *)
(* later blocks only, and the rate never changes in any other step.         *)
C22_RateChangeAccruesFirst ==
    [][/\ (lastOp'.op = "setRewardPerBlock" /\ txLeft' = txLeft - 1) =>
             /\ rewardPerBlock' = lastOp'.arg
             /\ Len(poolInfo') = Len(poolInfo)
             /\ \A pid \in Pids :
                   /\ poolInfo'[pid + 1].lastRewardBlock = blockNumber
                   /\ poolInfo'[pid + 1].accRewardPerShare =
                         poolInfo[pid + 1].accRewardPerShare + AccrualIncrement(pid)
       /\ rewardPerBlock' /= rewardPerBlock =>
             (lastOp'.op = "setRewardPerBlock" /\ txLeft' = txLeft - 1)]_vars

(* The rate has just been lowered from 7 to 2 one block or more after a     *)
(* stake: the pool was credited for the elapsed blocks at 7 per block.      *)
C22_Witness ==
    /\ lastOp.op = "setRewardPerBlock"
    /\ rewardPerBlock = 2
    /\ \E pid \in Pids :
          /\ poolInfo[pid + 1].totalStaked > 0
          /\ poolInfo[pid + 1].lastRewardBlock = blockNumber
          /\ poolInfo[pid + 1].allocPoint = totalAllocPoint
          /\ credited[pid] = InitialRewardPerBlock * (blockNumber - 1)
          /\ credited[pid] > 0

(* C23: a successful addPool first accrues every existing pool up to the    *)
(* current block with the totalAllocPoint of before the call, and only then *)
(* adds the new weight: after it every pool, the new one included, has      *)
(* lastRewardBlock = block.number, and the accRewardPerShare of every       *)
(* existing pool has grown by the increment computed with the old weights.  *)
C23_AddPoolAccruesFirst ==
    [][(lastOp'.op = "addPool" /\ txLeft' = txLeft - 1) =>
          /\ \A pid \in Pids :
                poolInfo'[pid + 1].accRewardPerShare =
                    poolInfo[pid + 1].accRewardPerShare + AccrualIncrement(pid)
          /\ \A i \in 1 .. Len(poolInfo') : poolInfo'[i].lastRewardBlock = blockNumber
          /\ totalAllocPoint' = totalAllocPoint + lastOp'.arg]_vars

(* A second pool with a positive weight has just been added one block or    *)
(* more after the first pool was staked: the first pool was credited the    *)
(* whole emission of the elapsed blocks, as its weight was the total.       *)
C23_Witness ==
    /\ lastOp.op = "addPool"
    /\ lastOp.arg > 0
    /\ Len(poolInfo) = 2
    /\ poolInfo[1].totalStaked > 0
    /\ poolInfo[1].allocPoint > 0
    /\ poolInfo[1].lastRewardBlock = blockNumber
    /\ credited[0] = InitialRewardPerBlock * (blockNumber - 1)
    /\ credited[0] > 0

(* The parameters a pool is registered with.                                *)
PoolParameters(pool) ==
    [stakingToken |-> pool.stakingToken, rewardToken |-> pool.rewardToken,
     allocPoint |-> pool.allocPoint, minLockPeriod |-> pool.minLockPeriod]

(* C24: a successful addPool appends exactly one pool, at the index that    *)
(* was the pool count, with the parameters it was called with,              *)
(* accRewardPerShare 0, totalStaked 0 and lastRewardBlock = block.number;   *)
(* no other step changes the pool count, which therefore never decreases,   *)
(* and the staking token, reward token, allocPoint and minLockPeriod stored *)
(* at an index never change.                                                *)
C24_PoolsAreAppendOnly ==
    [][/\ \A i \in 1 .. Len(poolInfo) :
             /\ i <= Len(poolInfo')
             /\ PoolParameters(poolInfo'[i]) = PoolParameters(poolInfo[i])
       /\ IF lastOp'.op = "addPool" /\ txLeft' = txLeft - 1
          THEN /\ Len(poolInfo') = Len(poolInfo) + 1
               /\ lastOp'.pid = Len(poolInfo)
               /\ LET pool == poolInfo'[Len(poolInfo) + 1]
                  IN /\ PoolParameters(pool) \in PoolConfigs
                     /\ pool.allocPoint = lastOp'.arg
                     /\ pool.accRewardPerShare = 0
                     /\ pool.totalStaked = 0
                     /\ pool.lastRewardBlock = blockNumber
                     /\ pool.isEmergencyWithdrawEnabled = FALSE
               /\ events' = << Event("PoolAdded", Owner, Len(poolInfo), 0) >>
          ELSE Len(poolInfo') = Len(poolInfo)]_vars

(* A second pool, with parameters different from the first, has just been   *)
(* appended at index 1 behind a first pool that is staked.                  *)
C24_Witness ==
    /\ lastOp.op = "addPool"
    /\ lastOp.pid = 1
    /\ Len(poolInfo) = 2
    /\ poolInfo[1].totalStaked > 0
    /\ PoolParameters(poolInfo[1]) /= PoolParameters(poolInfo[2])
    /\ poolInfo[2].lastRewardBlock = blockNumber
    /\ blockNumber > 1

RECURSIVE SumAllocPoint(_)
SumAllocPoint(pools) ==
    IF pools = << >> THEN 0
    ELSE pools[1].allocPoint + SumAllocPoint(Tail(pools))

(* C25: in every reachable state totalAllocPoint equals the sum of the      *)
(* allocPoint of all registered pools.                                      *)
C25_TotalAllocPointIsSum ==
    totalAllocPoint = SumAllocPoint(poolInfo)

(* Two pools with different positive weights are registered.                *)
C25_Witness ==
    /\ Len(poolInfo) = 2
    /\ poolInfo[1].allocPoint > 0
    /\ poolInfo[2].allocPoint > poolInfo[1].allocPoint
    /\ totalAllocPoint = 3

(* C26: in every reachable state and for every position, isActive is true   *)
(* exactly when amount > 0 (deposit sets it, a withdraw or an emergency     *)
(* withdraw that empties the position resets it).                           *)
C26_ActiveIffStaked ==
    \A pid \in PoolIds, a \in Accounts :
        userPositions[pid][a].isActive <=> userPositions[pid][a].amount > 0

(* A withdraw has just emptied a position that a deposit had activated,     *)
(* while another position of the same pool is still staked.                 *)
C26_Witness ==
    /\ lastOp.op = "withdraw"
    /\ lastOp.amountBefore > 0
    /\ lastOp.arg = lastOp.amountBefore
    /\ userPositions[lastOp.pid][lastOp.sender].amount = 0
    /\ ~userPositions[lastOp.pid][lastOp.sender].isActive
    /\ \E a \in Users : userPositions[lastOp.pid][a].isActive

(* The reward pending at the settlement of a deposit or withdraw of sender  *)
(* in pool pid (after the accrual the call starts with), and the reward     *)
(* token balance the payout is capped by.                                   *)
PendingAtSettlement(pid, sender) == settlePending(updatePool(st, pid).st, pid, sender)

RewardBalance(pid) == custody[poolInfo[pid + 1].rewardToken]

(* A deposit or withdraw whose own preconditions hold, settling a pending   *)
(* reward above the reward balance, succeeds, pays exactly the balance and  *)
(* moves the principal.                                                     *)
CappedSettlementCompletes(pid, sender) ==
    (updatePool(st, pid).err = OK /\ PendingAtSettlement(pid, sender) > RewardBalance(pid)) =>
        /\ \A amount \in WithdrawAmounts :
              (userPositions[pid][sender].amount >= amount /\ ~Locked(pid, sender)) =>
                  LET r == withdraw(st, sender, pid, amount)
                  IN /\ r.err = OK
                     /\ r.rewardOut = RewardBalance(pid)
                     /\ r.tokenOut = amount
                     /\ r.st.userPositions[pid][sender].amount
                           = userPositions[pid][sender].amount - amount
        /\ \A amount \in DepositAmounts \ {0} :
              ~paused =>
                  LET r == deposit(st, sender, pid, amount, TRUE)
                  IN /\ r.err = OK
                     /\ r.rewardOut = RewardBalance(pid)
                     /\ r.st.userPositions[pid][sender].amount
                           = userPositions[pid][sender].amount + amount

(* C27 (as claimed): when the reward pending at a settlement in deposit or  *)
(* withdraw exceeds the custody balance of the reward token, the call does  *)
(* not fail: exactly the available balance is paid and the deposit or       *)
(* withdrawal of principal completes.                                       *)
C27_CappedSettlementNeverFails ==
    \A pid \in Pids, sender \in Users : CappedSettlementCompletes(pid, sender)

(* The fee emergencyWithdraw retains on a position of the given amount.     *)
EmergencyFee(amount) == (amount * emergencyWithdrawFee) \div BPS_DENOMINATOR

(* C28: a successful emergencyWithdraw of a position with amount a lowers   *)
(* the pool's totalStaked by the full a while the contract's balance of the *)
(* staking token drops only by a - fee, which is what the caller receives;  *)
(* the fee stays in the contract and is booked nowhere: no other position,  *)
(* no other pool, no reward accumulator and no other balance changes.       *)
C28_EmergencyFeeStaysUnbooked ==
    [][(lastOp'.op = "emergencyWithdraw" /\ txLeft' = txLeft - 1) =>
          LET pid == lastOp'.pid
              sender == lastOp'.sender
              a == userPositions[pid][sender].amount
              fee == EmergencyFee(a)
              pool == poolInfo[pid + 1]
          IN /\ a > 0
             /\ poolInfo'[pid + 1] = [pool EXCEPT !.totalStaked = @ - a]
             /\ \A p \in Pids \ {pid} : poolInfo'[p + 1] = poolInfo[p + 1]
             /\ custody' = [custody EXCEPT ![pool.stakingToken] = @ - (a - fee)]
             /\ lastOp'.tokenOut = a - fee
             /\ lastOp'.rewardOut = 0
             /\ userPositions'[pid][sender].amount = 0
             /\ \A p \in PoolIds, u \in Accounts :
                   (p /= pid \/ u /= sender) => userPositions'[p][u] = userPositions[p][u]
    ]_vars

(* An emergency withdraw has just retained a positive fee: the caller got   *)
(* less than the stake that was removed from the pool.                      *)
C28_Witness ==
    /\ lastOp.op = "emergencyWithdraw"
    /\ lastOp.amountBefore = 20
    /\ lastOp.tokenOut < lastOp.amountBefore
    /\ poolInfo[lastOp.pid + 1].totalStaked = lastOp.totalBefore - lastOp.amountBefore
    /\ custody[poolInfo[lastOp.pid + 1].stakingToken] > poolInfo[lastOp.pid + 1].totalStaked

(* Neither method lets an exception escape, and a request that failed      *)
(* makes its method return null while run() moves on to the next step.     *)
FailedRequestsReturnNull ==
    /\ ~tracker.network.threw /\ ~tracker.github.threw
    /\ tracker.pc /= "rejected"
    /\ tracker.networkFailed =>
          /\ tracker.network.isNull
          /\ tracker.pc \in {"trackGitHubActivity", "displayOptimizationTips", "complete"}
    /\ tracker.githubFailed =>
          /\ tracker.github.isNull
          /\ tracker.pc \in {"displayOptimizationTips", "complete"}

(* C29 (as claimed): trackGitHubActivity and checkBaseNetwork never throw;  *)
(* when the GitHub request or the RPC call fails the method returns null,   *)
(* and run() goes on to the following steps and completes: the script is   *)
(* never left in a state from which run() cannot complete.                  *)
C29_FailuresReturnNullAndRunCompletes ==
    /\ FailedRequestsReturnNull
    /\ tracker.module /= "SyntaxError"

(* The type each listed contract is given, by the rule of the claim.        *)
ClassifiedByRule(contract) ==
    LET code == IF contract.hasBytecode THEN contract.bytecode ELSE << >>
        type == detectContractType(contract)
        erc20 == Includes(code, Transfer) /\ Includes(code, BalanceOf)
        erc721 == Includes(code, TokenURI) /\ Includes(code, OwnerOf)
        defi == Includes(code, Swap) /\ Includes(code, Liquidity)
    IN /\ type \in ContractTypes
       /\ type = "ERC20" <=> erc20
       /\ type = "ERC721" <=> (~erc20 /\ erc721)
       /\ type = "DeFi" <=> (~erc20 /\ ~erc721 /\ defi)
       /\ type = "Other" <=> (~erc20 /\ ~erc721 /\ ~defi)
       /\ ~contract.hasBytecode => type = "Other"

(* The expectations of the test file for its sample bytecodes.              *)
SampleBytecodesClassified ==
    \A k \in DOMAIN TestBytecodes : detectContractType(Contract(TestBytecodes[k])) = k

(* C30: detectContractType returns exactly one of ERC20, ERC721, DeFi and   *)
(* Other for every contract: ERC20 when the bytecode contains both          *)
(* 'transfer' and 'balanceOf', else ERC721 when it contains both 'tokenURI' *)
(* and 'ownerOf', else DeFi when it contains both 'swap' and 'liquidity',   *)
(* else Other (also when the bytecode is missing); the counts returned by   *)
(* analyzeContractTypes are the number of contracts of each type and sum to *)
(* the number of contracts.                                                 *)
C30_ContractTypesClassifiedAndCounted ==
    tracker.analyzed =>
        /\ SampleBytecodesClassified
        /\ \A i \in 1 .. Len(tracker.contracts) : ClassifiedByRule(tracker.contracts[i])
        /\ DOMAIN tracker.types \subseteq ContractTypes
        /\ \A k \in DOMAIN tracker.types :
              tracker.types[k] = Cardinality({i \in 1 .. Len(tracker.contracts) :
                                                 detectContractType(tracker.contracts[i]) = k})
        /\ \A k \in ContractTypes \ DOMAIN tracker.types :
              \A i \in 1 .. Len(tracker.contracts) :
                  detectContractType(tracker.contracts[i]) /= k
        /\ SumOver(DOMAIN tracker.types, tracker.types) = Len(tracker.contracts)

(* Two contracts have been analysed: one whose bytecode holds the keywords  *)
(* of all three types, counted as ERC20, and one without bytecode, counted  *)
(* as Other.                                                                *)
C30_Witness ==
    /\ tracker.analyzed
    /\ Len(tracker.contracts) = 2
    /\ \E i \in 1 .. 2 :
          /\ tracker.contracts[i].hasBytecode
          /\ Includes(tracker.contracts[i].bytecode, Swap)
          /\ Includes(tracker.contracts[i].bytecode, Liquidity)
          /\ Includes(tracker.contracts[i].bytecode, Transfer)
          /\ Includes(tracker.contracts[i].bytecode, BalanceOf)
    /\ \E i \in 1 .. 2 : ~tracker.contracts[i].hasBytecode
    /\ DOMAIN tracker.types = {"ERC20", "Other"}
    /\ tracker.types["ERC20"] = 1
    /\ tracker.types["Other"] = 1

(* An accrual of pool pid directly after an accrual of the same pool at the *)
(* same height, and an accrual at any height not above lastRewardBlock,     *)
(* return the state they were given.                                        *)
AccrualIdempotent(pid) ==
    /\ LET first == updatePool(st, pid)
       IN first.err = OK =>
             LET second == updatePool(first.st, pid)
             IN second.err = OK /\ second.st = first.st /\ second.credit = NoCredit
    /\ \A h \in 0 .. poolInfo[pid + 1].lastRewardBlock :
          LET early == updatePool([st EXCEPT !.blockNumber = h], pid)
          IN early.err = OK /\ early.st.poolInfo = poolInfo /\ early.credit = NoCredit

(* C31: accrual is idempotent at a fixed height: accruing a pool again at   *)
(* the same height, or at a height not above its lastRewardBlock, changes   *)
(* neither accRewardPerShare nor lastRewardBlock, whatever calls of the     *)
(* same height precede it.                                                  *)
C31_AccrualIdempotentAtHeight ==
    /\ [](\A pid \in Pids : AccrualIdempotent(pid))
    /\ [][\A pid \in Pids :
             (blockNumber' = blockNumber /\ poolInfo[pid + 1].lastRewardBlock >= blockNumber) =>
                 /\ poolInfo'[pid + 1].accRewardPerShare = poolInfo[pid + 1].accRewardPerShare
                 /\ poolInfo'[pid + 1].lastRewardBlock = poolInfo[pid + 1].lastRewardBlock]_vars

(* updatePool has just been called on a staked pool that a deposit of the   *)
(* same height had already accrued to a positive accumulator.               *)
C31_Witness ==
    /\ lastOp.op = "updatePool"
    /\ lastOp.pid \in Pids
    /\ blockNumber > 1
    /\ poolInfo[lastOp.pid + 1].lastRewardBlock = blockNumber
    /\ poolInfo[lastOp.pid + 1].accRewardPerShare > 0
    /\ \E a \in Users : /\ userPositions[lastOp.pid][a].amount > 0
                        /\ userPositions[lastOp.pid][a].lastRewardBlock = blockNumber

(* C32: the emission of an interval in which a pool has totalStaked = 0 is  *)
(* forgone: an accrual of an empty pool moves lastRewardBlock to the        *)
(* current height and leaves accRewardPerShare as it is, and a deposit into *)
(* an empty pool leaves the depositor with no pending reward, so nothing is *)
(* credited for the heights before the deposit.                             *)
C32_EmptyPoolForgoesEmission ==
    /\ [](\A pid \in Pids :
             poolInfo[pid + 1].totalStaked = 0 =>
                 LET u == updatePool(st, pid)
                 IN /\ u.err = OK
                    /\ u.credit = NoCredit
                    /\ u.st.poolInfo[pid + 1] =
                          [poolInfo[pid + 1] EXCEPT
                              !.lastRewardBlock = IF blockNumber > @ THEN blockNumber ELSE @]
                    /\ \A p \in Pids \ {pid} : u.st.poolInfo[p + 1] = poolInfo[p + 1])
    /\ [][(lastOp'.op = "deposit" /\ txLeft' = txLeft - 1
             /\ poolInfo[lastOp'.pid + 1].totalStaked = 0) =>
             LET pid == lastOp'.pid
                 position == userPositions'[pid][lastOp'.sender]
             IN /\ poolInfo'[pid + 1].accRewardPerShare = poolInfo[pid + 1].accRewardPerShare
                /\ poolInfo'[pid + 1].lastRewardBlock = blockNumber
                /\ lastOp'.rewardOut = 0
                /\ credited' = credited
                /\ (position.amount * poolInfo'[pid + 1].accRewardPerShare) \div PRECISION
                      = position.rewardDebt]_vars

(* A deposit has just been made into the first pool, registered at height 1 *)
(* (the second pool still has lastRewardBlock = 1) and empty until this     *)
(* later height.                                                            *)
C32_Witness ==
    /\ Len(poolInfo) = 2
    /\ poolInfo[2].lastRewardBlock = 1
    /\ lastOp.op = "deposit"
    /\ lastOp.pid = 0
    /\ lastOp.totalBefore = 0
    /\ blockNumber > 1
    /\ poolInfo[1].lastRewardBlock = blockNumber
    /\ poolInfo[1].accRewardPerShare = 0
    /\ credited[0] = 0

(* C33: pendingReward changes no state, and at every height its result is  *)
(* the reward that a withdraw by that account in that pool at the same      *)
(* height settles (before the cap of safeRewardTransfer), also when the     *)
(* pool has not been accrued since an earlier height; it fails exactly when *)
(* that settlement fails.                                                   *)
C33_PendingRewardIsWithdrawSettlement ==
    /\ [](\A pid \in Pids, a \in Users :
             LET v == pendingReward(st, pid, a)
                 u == updatePool(st, pid)
             IN /\ v.st = st
                /\ v.err = OK <=> (u.err = OK /\ settlePending(u.st, pid, a) >= 0)
                /\ v.err = OK => v.pending = settlePending(u.st, pid, a)
                /\ \A amount \in WithdrawAmounts :
                      LET w == withdraw(st, a, pid, amount)
                      IN w.err = OK => (v.err = OK /\ w.pending = v.pending))
    /\ [][(lastOp'.op = "withdraw" /\ txLeft' = txLeft - 1) =>
             LET v == pendingReward(st, lastOp'.pid, lastOp'.sender)
             IN v.err = OK /\ lastOp'.pending = v.pending]_vars

(* The only calls so far are addPool, a deposit and, at a later height, a   *)
(* withdraw, which settled the positive reward that pendingReward reported  *)
(* for the pool not yet accrued.                                            *)
C33_Witness ==
    /\ lastOp.op = "withdraw"
    /\ txLeft = MaxTx - 3
    /\ Len(poolInfo) = 1
    /\ lastOp.pending > 0
    /\ lastOp.pendingBefore = lastOp.pending
    /\ poolInfo[1].lastRewardBlock = blockNumber

(* C34: every successful deposit sets lockEndTime of the position to        *)
(* block.timestamp + minLockPeriod of the pool, for the whole position:     *)
(* after a top-up, a withdraw of any positive amount (also of stake whose   *)
(* earlier lock had expired) is rejected until that time is reached, and    *)
(* from then on the lock rejects nothing.                                   *)
C34_DepositRestartsLock ==
    /\ [][(lastOp'.op = "deposit" /\ txLeft' = txLeft - 1) =>
             LET pid == lastOp'.pid
                 sender == lastOp'.sender
             IN /\ userPositions'[pid][sender].lockEndTime
                      = timestamp + poolInfo[pid + 1].minLockPeriod
                /\ poolInfo[pid + 1].minLockPeriod > 0 =>
                      timestamp' < userPositions'[pid][sender].lockEndTime]_vars
    /\ [](\A pid \in Pids, a \in Users, amount \in WithdrawAmounts \ {0} :
             LET w == withdraw(st, a, pid, amount)
             IN /\ timestamp < userPositions[pid][a].lockEndTime => w.err /= OK
                /\ timestamp >= userPositions[pid][a].lockEndTime => w.err /= PositionLocked)

(* A top-up has just been made to a position of a pool with a lock of 1     *)
(* whose earlier stake had earned a reward, so its lock had expired; the    *)
(* whole position is locked again.                                          *)
C34_Witness ==
    /\ lastOp.op = "deposit"
    /\ lastOp.amountBefore > 0
    /\ lastOp.pending > 0
    /\ poolInfo[lastOp.pid + 1].minLockPeriod = 1
    /\ userPositions[lastOp.pid][lastOp.sender].lockEndTime = timestamp + 1
    /\ withdraw(st, lastOp.sender, lastOp.pid, lastOp.amountBefore).err = PositionLocked

(* The stake recorded by the pools whose staking token is the given token.  *)
StakedIn(token) ==
    SumOver(Pids, [pid \in Pids |->
                      IF poolInfo[pid + 1].stakingToken = token
                      THEN poolInfo[pid + 1].totalStaked ELSE 0])

(* C35 (as claimed): principal custody is solvent: in every reachable state *)
(* and for every token, the contract's balance of the token is at least the *)
(* sum of totalStaked over the pools staking that token, so that reward     *)
(* payouts never consume the stakers' principal, also when the reward token *)
(* of a pool is the staking token of a pool.                                *)
C35_PrincipalCustodySolvent ==
    \A token \in Tokens : custody[token] >= StakedIn(token)

(* C36 (as claimed): the amount carried by every RewardClaimed event equals *)
(* the amount of reward token actually transferred to the account by that   *)
(* settlement, also when the payout is capped by the contract's balance.    *)
C36_RewardClaimedIsAmountPaid ==
    \A i \in 1 .. Len(events) :
        events[i].name = "RewardClaimed" => events[i].amount = lastOp.rewardOut

(* C37: a capped payout loses the shortfall.  After a deposit or withdraw   *)
(* whose reward payout was capped by the contract's balance, rewardDebt is  *)
(* the full amount * accRewardPerShare / PRECISION, so the pending reward   *)
(* of the position is 0; no call pays more than the pending reward of its   *)
(* own settlement, and funding the contract afterwards changes no pending   *)
(* reward: the unpaid remainder is never paid.                              *)
C37_CappedPayoutLosesShortfall ==
    [][/\ (lastOp'.op \in {"deposit", "withdraw"} /\ txLeft' = txLeft - 1) =>
             LET pid == lastOp'.pid
                 position == userPositions'[pid][lastOp'.sender]
                 acc == poolInfo'[pid + 1].accRewardPerShare
             IN /\ lastOp'.rewardOut <= lastOp'.pending
                /\ lastOp'.pending = PendingBefore(pid, lastOp'.sender)
                /\ lastOp'.rewardOut < lastOp'.pending =>
                      /\ lastOp'.rewardOut = custody[poolInfo[pid + 1].rewardToken]
                      /\ position.rewardDebt = (position.amount * acc) \div PRECISION
                      /\ ((position.amount * acc) \div PRECISION) - position.rewardDebt = 0
       /\ lastOp'.op = "fund" =>
             \A pid \in Pids, a \in Users :
                 /\ userPositions'[pid][a] = userPositions[pid][a]
                 /\ PendingBefore(pid, a)' = PendingBefore(pid, a)]_vars

(* The contract has just been funded with reward tokens after a call        *)
(* settled a positive reward against an empty reward balance: none of it    *)
(* was paid, the funds are all still there, and the position that remains   *)
(* staked has no pending reward.                                            *)
C37_Witness ==
    /\ lastOp.op = "fund"
    /\ Len(poolInfo) = 1
    /\ poolInfo[1].rewardToken = RWD
    /\ poolInfo[1].stakingToken = STK
    /\ settled[0] > 0
    /\ custody[RWD] = lastOp.arg
    /\ \E a \in Users : /\ userPositions[0][a].amount > 0
                        /\ PendingBefore(0, a) = 0

(* The accrual of pool pid when the chain has reached height h with no     *)
(* other call in between.                                                   *)
AccrueAt(s, pid, h) == updatePool([s EXCEPT !.blockNumber = h], pid)

(* C38 (as claimed): accrual does not depend on how often it is called:     *)
(* with totalStaked, the weights and rewardPerBlock unchanged, accruing a   *)
(* pool up to a later height in one step gives the same accRewardPerShare   *)
(* as accruing it at an intermediate height first, so extra calls of        *)
(* updatePool cannot change the reward credited to stakers.                 *)
C38_AccrualIndependentOfCallCount ==
    \A pid \in Pids :
        \A h1 \in blockNumber .. MaxBlock, h2 \in blockNumber .. MaxBlock :
            h1 < h2 =>
                LET once == AccrueAt(st, pid, h2)
                    first == AccrueAt(st, pid, h1)
                    twice == AccrueAt(first.st, pid, h2)
                IN (once.err = OK /\ first.err = OK /\ twice.err = OK) =>
                      /\ twice.st.poolInfo[pid + 1].accRewardPerShare
                            = once.st.poolInfo[pid + 1].accRewardPerShare
                      /\ first.credit[pid] + twice.credit[pid] = once.credit[pid]

(* The deposit and withdraw calls an account may make on a pool.            *)
LedgerCalls ==
    {[op |-> "deposit", amount |-> n] : n \in DepositAmounts \ {0}}
        \cup {[op |-> "withdraw", amount |-> n] : n \in WithdrawAmounts}

ApplyCall(s, account, pid, call) ==
    IF call.op = "deposit" THEN deposit(s, account, pid, call.amount, TRUE)
    ELSE withdraw(s, account, pid, call.amount)

(* The call of account a followed, at the same height and time, by the call *)
(* of account b: whether both succeed, and the state they leave.            *)
BothSucceed(pid, a, ca, b, cb) ==
    LET r == ApplyCall(st, a, pid, ca)
    IN r.err = OK /\ ApplyCall(r.st, b, pid, cb).err = OK

AfterBoth(pid, a, ca, b, cb) ==
    ApplyCall(ApplyCall(st, a, pid, ca).st, b, pid, cb).st

(* C39: calls of different accounts on the same pool at the same height and *)
(* time commute on the ledger: two successful deposit or withdraw calls of  *)
(* two distinct accounts leave the same pool (accRewardPerShare,            *)
(* lastRewardBlock, totalStaked) and the same two positions in either       *)
(* order.  The statement is symmetric in the two accounts, so the first is  *)
(* fixed.                                                                   *)
C39_DistinctAccountsCommute ==
    \A pid \in Pids, ca \in LedgerCalls :
        LET a == "alice"
            ra == ApplyCall(st, a, pid, ca)
        IN ra.err = OK =>
              \A b \in Users \ {a}, cb \in LedgerCalls :
                  LET rb == ApplyCall(st, b, pid, cb)
                      rab == ApplyCall(ra.st, b, pid, cb)
                      rba == ApplyCall(rb.st, a, pid, ca)
                  IN (rb.err = OK /\ rab.err = OK /\ rba.err = OK) =>
                        /\ rab.st.poolInfo = rba.st.poolInfo
                        /\ rab.st.userPositions = rba.st.userPositions

(* Two staked accounts of a pool that has reward to accrue: a withdraw of   *)
(* one and a top-up of the other succeed in both orders and settle a        *)
(* reward.                                                                  *)
C39_Witness ==
    \E pid \in Pids :
        LET wd == [op |-> "withdraw", amount |-> 10]
            dp == [op |-> "deposit", amount |-> 10]
        IN /\ poolInfo[pid + 1].lastRewardBlock < blockNumber
           /\ userPositions[pid]["alice"].amount > 0
           /\ userPositions[pid]["bob"].amount > 0
           /\ BothSucceed(pid, "alice", wd, "bob", dp)
           /\ BothSucceed(pid, "bob", dp, "alice", wd)
           /\ AfterBoth(pid, "alice", wd, "bob", dp).poolInfo[pid + 1].accRewardPerShare
                 > poolInfo[pid + 1].accRewardPerShare
           /\ ApplyCall(st, "alice", pid, wd).pending > 0

=============================================================================
